---- MODULE Spec2Model ----
(***************************************************************************)
(* gogotrace: reverse call-graph analysis.                                 *)
(*                                                                         *)
(* The model follows analyzer/parser.go (LoadPackages and its two worker   *)
(* phases, the declaration extractor, the call resolver, addCallSite),     *)
(* analyzer/matcher.go (FindCallers and the signature matcher) and         *)
(* tree/builder.go (Build, buildSubtree, sortChildren).                    *)
(*                                                                         *)
(* Go strings are sequences of one-character strings, so that the string   *)
(* functions of the matcher and of the key formatting are computed and     *)
(* not assumed.  Indices returned by Index/LastIndex are 0-based as in Go. *)
(***************************************************************************)
EXTENDS Integers, Sequences, FiniteSets, TLC

(***************************************************************************)
(* Strings                                                                 *)
(***************************************************************************)

\* The printable ASCII characters, in byte order (codes 32..126); the four
\* quoting characters are place holders that keep the positions.
AsciiTable ==
  << " ", "!", "dquote", "#", "$", "%", "&", "squote", "(", ")", "*", "+", ",", "-",
     ".", "/", "0", "1", "2", "3", "4", "5", "6", "7", "8", "9", ":", ";",
     "<", "=", ">", "?", "@", "A", "B", "C", "D", "E", "F", "G", "H", "I",
     "J", "K", "L", "M", "N", "O", "P", "Q", "R", "S", "T", "U", "V", "W",
     "X", "Y", "Z", "[", "bslash", "]", "^", "_", "bquote", "a", "b", "c", "d", "e",
     "f", "g", "h", "i", "j", "k", "l", "m", "n", "o", "p", "q", "r", "s",
     "t", "u", "v", "w", "x", "y", "z", "{", "|", "}", "~" >>

\* Byte value of a character.
Ord(c) == 31 + (CHOOSE i \in 1..Len(AsciiTable) : AsciiTable[i] = c)

Chr(n) == AsciiTable[n - 31]

\* The < of Go on strings: bytewise lexicographic order.
RECURSIVE StrLess(_, _)
StrLess(s, t) ==
  IF t = <<>> THEN FALSE
  ELSE IF s = <<>> THEN TRUE
  ELSE IF Head(s) # Head(t) THEN Ord(Head(s)) < Ord(Head(t))
  ELSE StrLess(Tail(s), Tail(t))

\* s[from:to] of Go, 0-based, to exclusive.
Slice(s, from, to) == SubSeq(s, from + 1, to)

SliceFrom(s, from) == SubSeq(s, from + 1, Len(s))

HasPrefix(s, p) == Len(p) <= Len(s) /\ SubSeq(s, 1, Len(p)) = p

HasSuffix(s, p) ==
  Len(p) <= Len(s) /\ SubSeq(s, Len(s) - Len(p) + 1, Len(s)) = p

\* strings.Index: 0-based position of the first occurrence, -1 if none.
RECURSIVE IndexFrom(_, _, _)
IndexFrom(s, p, i) ==
  IF i + Len(p) > Len(s) THEN -1
  ELSE IF SubSeq(s, i + 1, i + Len(p)) = p THEN i
  ELSE IndexFrom(s, p, i + 1)

Index(s, p) == IndexFrom(s, p, 0)

\* strings.LastIndex.
RECURSIVE LastIndexFrom(_, _, _)
LastIndexFrom(s, p, i) ==
  IF i < 0 THEN -1
  ELSE IF SubSeq(s, i + 1, i + Len(p)) = p THEN i
  ELSE LastIndexFrom(s, p, i - 1)

LastIndex(s, p) == LastIndexFrom(s, p, Len(s) - Len(p))

Contains(s, p) == Index(s, p) >= 0

TrimPrefix(s, p) == IF HasPrefix(s, p) THEN SliceFrom(s, Len(p)) ELSE s

IsSpace(c) == c = " "

\* strings.Trim(s, cutset): drop leading and trailing characters of cutset.
RECURSIVE TrimLeftSet(_, _)
TrimLeftSet(s, cut) ==
  IF s # <<>> /\ Head(s) \in cut THEN TrimLeftSet(Tail(s), cut) ELSE s

RECURSIVE TrimRightSet(_, _)
TrimRightSet(s, cut) ==
  IF s # <<>> /\ s[Len(s)] \in cut
    THEN TrimRightSet(SubSeq(s, 1, Len(s) - 1), cut)
    ELSE s

Trim(s, cut) == TrimRightSet(TrimLeftSet(s, cut), cut)

TrimSpace(s) == Trim(s, {" "})

\* strings.ReplaceAll(s, old, new): left to right, non-overlapping.
RECURSIVE ReplaceAll(_, _, _)
ReplaceAll(s, old, new) ==
  IF s = <<>> THEN <<>>
  ELSE IF HasPrefix(s, old)
    THEN new \o ReplaceAll(SliceFrom(s, Len(old)), old, new)
    ELSE <<Head(s)>> \o ReplaceAll(Tail(s), old, new)

\* strings.Fields: the maximal runs of non-space characters.
RECURSIVE FieldsAcc(_, _, _)
FieldsAcc(s, cur, acc) ==
  IF s = <<>> THEN (IF cur = <<>> THEN acc ELSE Append(acc, cur))
  ELSE IF IsSpace(Head(s))
    THEN FieldsAcc(Tail(s), <<>>, IF cur = <<>> THEN acc ELSE Append(acc, cur))
    ELSE FieldsAcc(Tail(s), Append(cur, Head(s)), acc)

Fields(s) == FieldsAcc(s, <<>>, <<>>)

\* strings.Join.
RECURSIVE Join(_, _)
Join(parts, sep) ==
  IF parts = <<>> THEN <<>>
  ELSE IF Len(parts) = 1 THEN parts[1]
  ELSE parts[1] \o sep \o Join(Tail(parts), sep)

IsUpper(c) == Ord(c) >= 65 /\ Ord(c) <= 90

ToLowerChar(c) == IF IsUpper(c) THEN Chr(Ord(c) + 32) ELSE c

ToLower(s) == [i \in 1..Len(s) |-> ToLowerChar(s[i])]

\* fmt's %d for a non-negative int.
RECURSIVE Itoa(_)
Itoa(n) ==
  IF n < 10 THEN <<Chr(48 + n)>>
  ELSE Itoa(n \div 10) \o <<Chr(48 + (n % 10))>>

(***************************************************************************)
(* The scanned source tree                                                 *)
(*                                                                         *)
(* A file is [dir, base, ok, decls]: its directory relative to the scan    *)
(* root ("." for the root itself), its base name, whether go/parser        *)
(* accepts it, and its top-level function declarations in source order.    *)
(* A declaration is [name, recvName, recv, params, line, hasBody, body];   *)
(* recv and the parameter types are type expressions (ast.Expr), a body    *)
(* is the sequence of the nodes ast.Inspect visits in pre-order that the   *)
(* resolver looks at:                                                      *)
(*   [k |-> "call", fun |-> expr]   an ast.CallExpr and its Fun            *)
(*   [k |-> "lit", line, params, body]   an ast.FuncLit                    *)
(* An expression is [k |-> "ident", name], [k |-> "sel", x, sel],          *)
(* [k |-> "star", x], ... as far as formatType and processCallExpr         *)
(* distinguish them.                                                       *)
(***************************************************************************)

NoExpr == [k |-> "none"]

Ident(name) == [k |-> "ident", name |-> name]

Star(x) == [k |-> "star", x |-> x]

Sel(x, sel) == [k |-> "sel", x |-> x, sel |-> sel]

Call(fun) == [k |-> "call", fun |-> fun]

Lit(line, params, body) ==
  [k |-> "lit", line |-> line, params |-> params, body |-> body]

\* One parameter field: its names (possibly none) and its type.
Field(names, type) == [names |-> names, type |-> type]

\* formatType: the canonical text of a type expression.
RECURSIVE formatType(_)
formatType(t) ==
  CASE t.k = "ident" -> t.name
    [] t.k = "star" -> <<"*">> \o formatType(t.x)
    [] t.k = "sel" -> formatType(t.x) \o <<".">> \o t.sel
    [] t.k = "array" ->
         IF t.len = FALSE THEN <<"[", "]">> \o formatType(t.elt)
         ELSE <<"[", ".", ".", ".", "]">> \o formatType(t.elt)
    [] t.k = "interface" ->
         <<"i", "n", "t", "e", "r", "f", "a", "c", "e", "{", "}">>
    [] t.k = "struct" -> <<"s", "t", "r", "u", "c", "t", "{", "}">>
    [] t.k = "func" -> <<"f", "u", "n", "c", "(", ".", ".", ".", ")">>
    [] t.k = "map" ->
         <<"m", "a", "p", "[">> \o formatType(t.key) \o <<"]">>
           \o formatType(t.value)
    [] t.k = "chan" -> <<"c", "h", "a", "n", " ">> \o formatType(t.value)
    [] t.k = "ellipsis" -> <<".", ".", ".">> \o formatType(t.elt)
    [] OTHER -> <<"u", "n", "k", "n", "o", "w", "n">>

\* The "name type" / "type" entries both extractParameters and
\* buildSignature build from a parameter list.
RECURSIVE paramEntries(_)
paramEntries(fields) ==
  IF fields = <<>> THEN <<>>
  ELSE LET f == Head(fields)
           ty == formatType(f.type)
           mine == IF Len(f.names) > 0
                     THEN [i \in 1..Len(f.names) |-> f.names[i] \o <<" ">> \o ty]
                     ELSE <<ty>>
       IN mine \o paramEntries(Tail(fields))

\* extractParameters / extractParametersFromFuncLit.
extractParameters(fields) ==
  <<"(">> \o Join(paramEntries(fields), <<",", " ">>) \o <<")">>

\* buildSignature: "func", the receiver clause, the name and the parameter
\* list, joined by single spaces.
buildSignature(d) ==
  LET recvPart ==
        IF d.recv.k = "none" THEN <<>>
        ELSE IF d.recvName # <<>>
          THEN << <<"(">> \o d.recvName \o <<" ">> \o formatType(d.recv) \o <<")">> >>
          ELSE << <<"(">> \o formatType(d.recv) \o <<")">> >>
      parts == << <<"f", "u", "n", "c">> >> \o recvPart \o << d.name >>
                 \o << extractParameters(d.params) >>
  IN Join(parts, <<" ">>)

\* filepath.Rel(baseDir, filePath) for a file of the tree.
relPathOf(file) ==
  IF file.dir = <<".">> THEN file.base ELSE file.dir \o <<"/">> \o file.base

\* isTestFunction.
isTestFunction(filename) ==
  HasSuffix(filename, <<"_", "t", "e", "s", "t", ".", "g", "o">>)

(***************************************************************************)
(* State                                                                   *)
(***************************************************************************)

VARIABLES
  dirState,      \* the scan root on disk: "ok", "missing" or "unreadable"
  baseDir,       \* Analyzer.baseDir: the absolute scan root
  files,         \* the source tree on disk (unchanged by the program)
  query,         \* the -func signature
  noTests,       \* the -no-test flag
  pc,            \* position of the main goroutine
  allFiles,      \* LoadPackages: the discovered files, in walk order
  sent,          \* LoadPackages: files sent so far in the running phase
  fileChan,      \* Phase 1 channel: [buf, closed]
  fileChan2,     \* Phase 2 channel: [buf, closed]
  workers1,      \* Phase 1 worker goroutines: [st, file, pending]
  workers2,      \* Phase 2 worker goroutines: [st, file, pending]
  wg,            \* the sync.WaitGroup counter
  functions,     \* Analyzer.functions: key -> Function
  callGraph,     \* Analyzer.callGraph: callee key -> sequence of CallSites
  callGraphMu,   \* Analyzer.callGraphMu: is the mutex locked
  filesScanned,  \* Analyzer.filesScanned
  funcsFound,    \* Analyzer.funcsFound
  root,          \* CallTree.Root once Build has returned, else NoNode
  stack,         \* the active Build / buildSubtree frames
  visitedMap,    \* CallTree.visitedMap: the keys mapped to true
  err,           \* the error main reports, or "none"
  run,           \* which run of the program this is (1 or 2)
  firstRun       \* what the first run ended with

vars ==
  << callGraphMu, dirState, baseDir, files, query, noTests, pc, allFiles, sent, fileChan, fileChan2,
     workers1, workers2, wg, functions, callGraph, filesScanned, funcsFound,
     root, stack, visitedMap, err, run, firstRun >>

(***************************************************************************)
(* Declaration extractor                                                   *)
(***************************************************************************)

\* filePath as WalkDir reports it.
filePathOf(file) == baseDir \o <<"/">> \o relPathOf(file)

\* getPackagePath, for a file path, the index of "github.com/" in it and
\* the index of its last "/".
packagePathAt(filePath, idx, endIdx, dir) ==
  IF idx >= 0 /\ endIdx > idx THEN Slice(filePath, idx, endIdx) ELSE dir

getPackagePath(file) ==
  packagePathAt(filePathOf(file),
                Index(filePathOf(file),
                      <<"g", "i", "t", "h", "u", "b", ".", "c", "o", "m", "/">>),
                LastIndex(filePathOf(file), <<"/">>),
                file.dir)

\* createFunction.
createFunction(file, d) ==
  [ Name       |-> d.name,
    Receiver   |-> IF d.recv.k = "none" THEN <<>> ELSE formatType(d.recv),
    Signature  |-> buildSignature(d),
    Package    |-> getPackagePath(file),
    File       |-> file.base,
    Line       |-> d.line,
    IsTest     |-> isTestFunction(relPathOf(file)),
    FullPath   |-> relPathOf(file),
    Parameters |-> extractParameters(d.params) ]

\* The parameter types of a literal, one per declared name.
RECURSIVE litParamTypes(_)
litParamTypes(fields) ==
  IF fields = <<>> THEN <<>>
  ELSE [i \in 1..(IF Len(Head(fields).names) = 0 THEN 1
                  ELSE Len(Head(fields).names)) |-> formatType(Head(fields).type)]
       \o litParamTypes(Tail(fields))

\* createAnonymousFunction, for the joined parameter types of the literal:
\* the fields of the synthetic Function.  Package, File, IsTest and
\* FullPath are the parent's, which are those of the file.
anonFunction(parent, lit, joined) ==
  [ Name       |-> IF Len(joined) > 0
                     THEN <<"f", "u", "n", "c", "(">> \o joined
                            \o <<")", " ", "i", "n", " ">> \o parent.FullPath
                     ELSE <<"f", "u", "n", "c", "(", ".", ".", ".", ")",
                            " ", "i", "n", " ">> \o parent.FullPath,
    Receiver   |-> <<>>,
    Signature  |-> IF Len(joined) > 0
                     THEN <<"f", "u", "n", "c", "(">> \o joined \o <<")">>
                     ELSE <<"f", "u", "n", "c", "(", ")">>,
    Package    |-> parent.Package,
    File       |-> parent.File,
    Line       |-> lit.line,
    IsTest     |-> parent.IsTest,
    FullPath   |-> parent.FullPath,
    Parameters |-> extractParameters(lit.params) ]

createAnonymousFunction(lit, parent) ==
  anonFunction(parent, lit, Join(litParamTypes(lit.params), <<",", " ">>))

\* Analyzer.getFunctionKey: package#[receiver.]name#line.
getFunctionKey(fn) ==
  IF fn.Receiver # <<>>
    THEN fn.Package \o <<"#">> \o fn.Receiver \o <<".">> \o fn.Name
           \o <<"#">> \o Itoa(fn.Line)
    ELSE fn.Package \o <<"#">> \o fn.Name \o <<"#">> \o Itoa(fn.Line)

\* The key createAnonymousFunction stores a literal under.
anonKey(parent, anon) ==
  getFunctionKey(parent) \o <<"#", "a", "n", "o", "n", "#">> \o Itoa(anon.Line)

(***************************************************************************)
(* Call resolver                                                           *)
(***************************************************************************)

\* splitCamelCase: a new word starts at every upper-case letter but the
\* first character.
RECURSIVE splitCamelAcc(_, _, _, _)
splitCamelAcc(s, i, cur, acc) ==
  IF i > Len(s) THEN (IF Len(cur) > 0 THEN Append(acc, cur) ELSE acc)
  ELSE IF i > 1 /\ IsUpper(s[i]) /\ Len(cur) > 0
    THEN splitCamelAcc(s, i + 1, <<s[i]>>, Append(acc, cur))
    ELSE splitCamelAcc(s, i + 1, Append(cur, s[i]), acc)

splitCamelCase(s) == splitCamelAcc(s, 1, <<>>, <<>>)

cMultiplexer == <<"m", "u", "l", "t", "i", "p", "l", "e", "x", "e", "r">>

\* couldBeReceiver, lines 506-546: a one-letter variable that is the first
\* letter of the type.
singleLetterMatch(varLower, typeLower) ==
  CASE varLower = <<"r">> ->
         \/ Contains(typeLower, <<"r">>)
         \/ Contains(typeLower, <<"r", "e", "a", "d", "e", "r">>)
         \/ Contains(typeLower, <<"r", "o", "u", "t", "e", "r">>)
         \/ Contains(typeLower, cMultiplexer)
    [] varLower = <<"m">> ->
         \/ Contains(typeLower, <<"m">>)
         \/ Contains(typeLower, <<"m", "a", "n", "a", "g", "e", "r">>)
         \/ Contains(typeLower, <<"m", "a", "p">>)
         \/ Contains(typeLower, cMultiplexer)
    [] varLower = <<"s">> ->
         \/ Contains(typeLower, <<"s">>)
         \/ Contains(typeLower, <<"s", "e", "r", "v", "e", "r">>)
         \/ Contains(typeLower, <<"s", "e", "r", "v", "i", "c", "e">>)
         \/ Contains(typeLower, <<"s", "t", "o", "r", "e">>)
    [] varLower = <<"c">> ->
         \/ Contains(typeLower, <<"c">>)
         \/ Contains(typeLower, <<"c", "l", "i", "e", "n", "t">>)
         \/ Contains(typeLower, <<"c", "o", "n", "t", "r", "o", "l", "l", "e", "r">>)
         \/ Contains(typeLower, <<"c", "o", "n", "t", "e", "x", "t">>)
    [] varLower = <<"t">> ->
         \/ Contains(typeLower, <<"t">>)
         \/ Contains(typeLower, <<"t", "r", "a", "c", "k", "e", "r">>)
    [] varLower = <<"i">> ->
         \/ Contains(typeLower, <<"i">>)
         \/ Contains(typeLower, <<"i", "n", "b", "o", "x">>)
    [] varLower = <<"b">> ->
         \/ Contains(typeLower, <<"b">>)
         \/ Contains(typeLower, <<"b", "a", "t", "c", "h">>)
    [] OTHER -> HasPrefix(typeLower, varLower)

\* couldBeReceiver, lines 565-575: a two-letter variable made of the
\* initials of the first two words of the type.
initialsMatch(varLower, parts) ==
  /\ Len(parts) >= 2
  /\ varLower = ToLower(<<parts[1][1], parts[2][1]>>)

\* couldBeReceiver, from line 490 on: the receiver type has lost its "*",
\* varLower and typeLower are the lower-cased names.
couldBeReceiverLower(varName, receiverType, varLower, typeLower) ==
  IF Len(varName) = 0 \/ Len(receiverType) = 0 THEN FALSE
  ELSE IF varLower = typeLower THEN TRUE
  ELSE IF Len(varName) = 1 /\ HasPrefix(typeLower, varLower)
    THEN singleLetterMatch(varLower, typeLower)
  ELSE IF varLower = <<"m", "u", "x">> /\ Contains(typeLower, cMultiplexer)
    THEN TRUE
  ELSE IF varLower = <<"s", "i", "m", "m", "u", "x">>
          /\ Contains(typeLower, cMultiplexer)
    THEN TRUE
  ELSE IF Len(varName) > 3 /\ HasSuffix(typeLower, varLower) THEN TRUE
  ELSE IF Len(varName) = 2 /\ initialsMatch(varLower, splitCamelCase(receiverType))
    THEN TRUE
  ELSE Len(varName) > 2 /\ Contains(typeLower, varLower)

\* couldBeReceiver: may a variable of this name hold this receiver type.
couldBeReceiver(varName, receiverType) ==
  couldBeReceiverLower(varName, TrimPrefix(receiverType, <<"*">>),
                       ToLower(varName),
                       ToLower(TrimPrefix(receiverType, <<"*">>)))

\* The smallest key among the Functions of a set.
MinKey(S) ==
  CHOOSE k \in { getFunctionKey(fn) : fn \in S } :
    \A fn \in S : ~StrLess(getFunctionKey(fn), k)

\* A set of Functions as a sequence in ascending key order (sort.Slice by
\* getFunctionKey).
RECURSIVE SortByKey(_)
SortByKey(S) ==
  IF S = {} THEN <<>>
  ELSE << CHOOSE fn \in S : getFunctionKey(fn) = MinKey(S) >>
       \o SortByKey(S \ { CHOOSE fn \in S : getFunctionKey(fn) = MinKey(S) })

\* The Functions of the catalog (the values functions.Range visits).
Catalog == { functions[k] : k \in DOMAIN functions }

FirstOf(seq) == IF seq # <<>> THEN <<seq[1]>> ELSE <<>>

OrElse(first, second) == IF first # <<>> THEN first ELSE second

\* "Prefer candidates from the same package": the first of them, if any.
FirstInPackage(cands, pkg) ==
  FirstOf(SelectSeq(cands, LAMBDA c : c.Package = pkg))

\* Lines 352-362 searching every file: the smallest-keyed Function of the
\* catalog when the file has none.
identCallees_AnyFile(targetName, localFuncs) ==
  OrElse(FirstOf(SelectSeq(localFuncs,
                   LAMBDA fn : fn.Name = targetName /\ fn.Receiver = <<>>)),
         FirstOf(SortByKey({ fn \in Catalog :
                               fn.Name = targetName /\ fn.Receiver = <<>> })))

\* processCallExpr, lines 352-362: a plain identifier call.
identCallees(targetName, localFuncs) ==
  FirstOf(SelectSeq(localFuncs,
            LAMBDA fn : fn.Name = targetName /\ fn.Receiver = <<>>))

\* Lines 372-385: the receiver variable, or the field used as the hint.
receiverVarOf(x) ==
  IF x.k = "ident" THEN x.name
  ELSE IF x.k = "sel" /\ x.x.k = "ident" THEN x.sel
  ELSE <<>>

\* Lines 387-403: the methods of the caller's file the call is linked to.
localCallees(methodName, receiverVar, receiverFieldAccess, localFuncs) ==
  SelectSeq(localFuncs,
    LAMBDA fn : /\ fn.Name = methodName
                /\ fn.Receiver # <<>>
                /\ IF receiverVar # <<>>
                     THEN couldBeReceiver(receiverVar, fn.Receiver)
                     ELSE receiverFieldAccess)

\* Lines 426-446: the choice among the sorted candidates of a hinted call.
pickHinted(candidates, pkg) ==
  IF Len(candidates) = 1 THEN candidates
  ELSE IF Len(candidates) > 1
    THEN OrElse(FirstInPackage(candidates, pkg), <<candidates[1]>>)
  ELSE <<>>

\* Lines 464-478: the choice among the sorted candidates of a field access
\* without a hint.
pickField(candidates, pkg) ==
  OrElse(FirstInPackage(candidates, pkg),
         IF Len(candidates) = 1 THEN candidates ELSE <<>>)

\* Lines 405-480: the search of the whole catalog.
globalCallees(methodName, receiverVar, receiverFieldAccess, pkg, catalog) ==
  IF methodName = <<>> THEN <<>>
  ELSE IF receiverVar # <<>>
    THEN pickHinted(
           SortByKey({ fn \in catalog :
                         /\ fn.Name = methodName
                         /\ fn.Receiver # <<>>
                         /\ couldBeReceiver(receiverVar, fn.Receiver) }),
           pkg)
  ELSE IF receiverFieldAccess
    THEN pickField(
           SortByKey({ fn \in catalog :
                         fn.Name = methodName /\ fn.Receiver # <<>> }),
           pkg)
  ELSE <<>>

\* Lines 364-480: a selector call.
selectorCallees(sel, x, pkg, localFuncs, catalog) ==
  OrElse(localCallees(sel, receiverVarOf(x), x.k = "sel", localFuncs),
         globalCallees(sel, receiverVarOf(x), x.k = "sel", pkg, catalog))

\* processCallExpr: the callees it passes to addCallSite for one call
\* expression, in order.  localFuncs are the Functions of the caller's
\* file, in source order.
processCallExpr(fun, caller, localFuncs, catalog) ==
  IF fun.k = "ident" THEN identCallees(fun.name, localFuncs)
  ELSE IF fun.k = "sel"
    THEN selectorCallees(fun.sel, fun.x, caller.Package, localFuncs, catalog)
  ELSE <<>>

\* analyzeFunctionBody / analyzeAnonFunctionBody: what ast.Inspect makes of
\* a body for one caller, as the sequence of pending operations.  A literal
\* is stored and linked to the caller, analysed with itself as the caller,
\* and, because the visitor returns true, its body is then visited again
\* by the traversal of the caller.
RECURSIVE analyzeBody(_, _, _)
RECURSIVE analyzeLit(_, _, _)

\* analyzeLit without the analysis of the literal's body with the literal
\* as the caller.
analyzeLit_NoSelf(lit, caller, anonFunc) ==
  << [k |-> "store", caller |-> caller, fn |-> anonFunc],
     [k |-> "edge", caller |-> caller, fn |-> anonFunc] >>
  \o analyzeBody(lit.body, 1, caller)

analyzeLit(lit, caller, anonFunc) ==
  << [k |-> "store", caller |-> caller, fn |-> anonFunc],
     [k |-> "edge", caller |-> caller, fn |-> anonFunc] >>
  \o analyzeBody(lit.body, 1, anonFunc)
  \o analyzeBody(lit.body, 1, caller)

analyzeBody(body, i, caller) ==
  IF i > Len(body) THEN <<>>
  ELSE (IF body[i].k = "call"
          THEN << [k |-> "call", caller |-> caller, fun |-> body[i].fun] >>
        ELSE IF body[i].k = "lit"
          THEN analyzeLit(body[i], caller, createAnonymousFunction(body[i], caller))
        ELSE <<>>)
       \o analyzeBody(body, i + 1, caller)

(***************************************************************************)
(* Signature matcher                                                       *)
(***************************************************************************)

\* normalizeSignature: trim, then one pass replacing two spaces by one.
normalizeSignature(sig) == ReplaceAll(TrimSpace(sig), <<" ", " ">>, <<" ">>)

\* parseSignature, lines 109-115: name and params of what follows the
\* receiver, for the index of its first "(".
parseName(receiver, sig, parenIdx) ==
  IF parenIdx > 0
    THEN [ receiver |-> receiver,
           name     |-> TrimSpace(Slice(sig, 0, parenIdx)),
           params   |-> SliceFrom(sig, parenIdx) ]
    ELSE [ receiver |-> receiver, name |-> sig, params |-> <<>> ]

\* parseSignature, lines 101-107: the receiver, for the index of the first
\* ")" of the text.
parseReceiver(sig, endRecv) ==
  IF HasPrefix(sig, <<"(">>) /\ endRecv > 0
    THEN parseName(Slice(sig, 1, endRecv),
                   TrimSpace(SliceFrom(sig, endRecv + 1)),
                   Index(TrimSpace(SliceFrom(sig, endRecv + 1)), <<"(">>))
    ELSE parseName(<<>>, sig, Index(sig, <<"(">>))

\* parseSignature, after the "func" prefix and the spaces are gone.
parseTrimmed(sig) == parseReceiver(sig, Index(sig, <<")">>))

parseSignature(sig) ==
  parseTrimmed(TrimSpace(TrimPrefix(sig, <<"f", "u", "n", "c">>)))

\* matchesReceiverSignature, for the fields of the two receivers.
matchesReceiverFields(fnParts, targetParts) ==
  IF Len(fnParts) < 2 \/ Len(targetParts) < 2 THEN FALSE
  ELSE TrimPrefix(fnParts[Len(fnParts)], <<"*">>)
         = TrimPrefix(targetParts[Len(targetParts)], <<"*">>)

matchesReceiverSignature(fnReceiver, targetReceiver) ==
  matchesReceiverFields(Fields(TrimSpace(fnReceiver)),
                        Fields(TrimSpace(targetReceiver)))

\* splitParams: split at the commas outside brackets, trimming each part.
RECURSIVE splitParamsAcc(_, _, _, _)
splitParamsAcc(s, cur, depth, acc) ==
  IF s = <<>>
    THEN (IF Len(cur) > 0 THEN Append(acc, TrimSpace(cur)) ELSE acc)
  ELSE IF Head(s) \in {"(", "[", "{"}
    THEN splitParamsAcc(Tail(s), Append(cur, Head(s)), depth + 1, acc)
  ELSE IF Head(s) \in {")", "]", "}"}
    THEN splitParamsAcc(Tail(s), Append(cur, Head(s)), depth - 1, acc)
  ELSE IF Head(s) = "," /\ depth = 0
    THEN splitParamsAcc(Tail(s), <<>>, depth, Append(acc, TrimSpace(cur)))
  ELSE splitParamsAcc(Tail(s), Append(cur, Head(s)), depth, acc)

splitParams(params) == splitParamsAcc(params, <<>>, 0, <<>>)

\* matchesParam, for the fields of the two parameters.
matchesParamFields(fnParts, targetParts) ==
  IF Len(fnParts) = 0 \/ Len(targetParts) = 0 THEN FALSE
  ELSE fnParts[Len(fnParts)] = targetParts[Len(targetParts)]

matchesParam(fnParam, targetParam) ==
  matchesParamFields(Fields(fnParam), Fields(targetParam))

\* matchesParams, lines 151-161, for the two split lists.
matchesParamLists(fnParamList, targetParamList) ==
  IF Len(fnParamList) # Len(targetParamList) THEN FALSE
  ELSE \A i \in 1..Len(fnParamList) :
         matchesParam(fnParamList[i], targetParamList[i])

\* matchesParams, lines 144-161, for the two texts without their
\* surrounding parentheses.
matchesParamTexts(fnParams, targetParams) ==
  IF fnParams = targetParams THEN TRUE
  ELSE matchesParamLists(splitParams(fnParams), splitParams(targetParams))

matchesParams(fnParams, targetParams) ==
  matchesParamTexts(Trim(fnParams, {"(", ")"}), Trim(targetParams, {"(", ")"}))

\* matchesSignature, lines 70-86, for the parsed signatures.
matchesParts(fnParts, targetParts) ==
  IF fnParts.name # targetParts.name THEN FALSE
  ELSE IF /\ targetParts.receiver # <<>>
          /\ ~matchesReceiverSignature(fnParts.receiver, targetParts.receiver)
    THEN FALSE
  ELSE IF /\ targetParts.params # <<>>
          /\ targetParts.params # <<"(", ")">>
          /\ ~matchesParams(fnParts.params, targetParts.params)
    THEN FALSE
  ELSE TRUE

\* matchesSignature, lines 63-86, for the normalized signatures.
matchesNormalized(fnSig, targetSig) ==
  IF fnSig = targetSig THEN TRUE
  ELSE matchesParts(parseSignature(fnSig), parseSignature(targetSig))

matchesSignature(fn, targetSignature) ==
  matchesNormalized(normalizeSignature(fn.Signature),
                    normalizeSignature(targetSignature))

\* Every call site of the graph under its first key, whatever the key
\* asked for.
loadCallSites_AnyKey(graph, key) ==
  IF DOMAIN graph = {} THEN <<>>
  ELSE graph[CHOOSE k \in DOMAIN graph : \A other \in DOMAIN graph : ~StrLess(other, k)]

\* GetCallersOf / callGraph.Load: the call sites stored under a key.
loadCallSites(graph, key) == IF key \in DOMAIN graph THEN graph[key] ELSE <<>>

\* filterTestCallers without the filter.
filterTestCallers_KeepAll(callSites, excludeTests) == callSites

\* FindCallers, lines 46-54.
filterTestCallers(callSites, excludeTests) ==
  IF excludeTests THEN SelectSeq(callSites, LAMBDA cs : ~cs.Caller.IsTest)
  ELSE callSites

\* The last element of a sequence, if any.
LastOf(seq) == IF seq # <<>> THEN <<seq[Len(seq)]>> ELSE <<>>

\* The matching Function with the largest key instead of the smallest.
matchingFunctions_Largest(catalog, targetSignature) ==
  LastOf(SortByKey({ fn \in catalog : matchesSignature(fn, targetSignature) }))

\* FindCallers, lines 17-30: the matching Functions in key order.
matchingFunctions(catalog, targetSignature) ==
  SortByKey({ fn \in catalog : matchesSignature(fn, targetSignature) })

\* FindCallers, lines 32-56, for the sorted matches: the error or the call
\* sites of the first match.
findCallersOf(matching, graph, excludeTests) ==
  IF matching = <<>> THEN [err |-> "not found", callSites |-> <<>>]
  ELSE [ err       |-> "none",
         callSites |-> filterTestCallers(
                         loadCallSites(graph, getFunctionKey(matching[1])),
                         excludeTests) ]

FindCallers(targetSignature, excludeTests) ==
  findCallersOf(matchingFunctions(Catalog, normalizeSignature(targetSignature)),
                callGraph, excludeTests)

(***************************************************************************)
(* LoadPackages (analyzer/parser.go)                                       *)
(***************************************************************************)

\* Worker goroutines per phase: runtime.NumCPU() * 2 in the program.
NumWorkers == 2

Workers == 1..NumWorkers

NoChan == [buf |-> <<>>, closed |-> FALSE]

NoWorker == [st |-> "none", file |-> 0, pending |-> <<>>]

IdleWorker == [st |-> "idle", file |-> 0, pending |-> <<>>]

\* The WalkDir callback: does it collect this path.
walkKeeps(path) ==
  /\ ~Contains(path, <<"v", "e", "n", "d", "o", "r", "/">>)
  /\ ~Contains(path, <<".", "g", "i", "t", "/">>)
  /\ ~Contains(path, <<"t", "e", "s", "t", "d", "a", "t", "a", "/">>)
  /\ ~Contains(path, <<".", "w", "o", "r", "k", "/">>)
  /\ HasSuffix(path, <<".", "g", "o">>)
  /\ ~HasSuffix(path, <<".", "p", "b", ".", "g", "o">>)
  /\ ~HasSuffix(path, <<"_", "g", "e", "n", ".", "g", "o">>)

\* The files WalkDir collects, in walk order.
RECURSIVE walkFrom(_)
walkFrom(i) ==
  IF i > Len(files) THEN <<>>
  ELSE (IF walkKeeps(filePathOf(files[i])) THEN <<i>> ELSE <<>>) \o walkFrom(i + 1)

\* filepath.WalkDir with the callback of LoadPackages.  When the root
\* cannot be read the callback is handed the error and returns nil (lines
\* 59-61), so the walk ends without an error and without a file.
WalkDir == IF dirState = "ok" THEN walkFrom(1) ELSE <<>>

\* main, lines 45-54: resolve the directory and os.Stat it; a directory
\* that does not exist ends the run.
Stat ==
  /\ pc = "stat"
  /\ IF dirState = "missing"
       THEN /\ err' = "directory does not exist"
            /\ pc' = "failed"
       ELSE /\ pc' = "walk"
            /\ UNCHANGED err
  /\ UNCHANGED << callGraphMu, dirState, baseDir, files, query, noTests, allFiles, sent,
                  fileChan, fileChan2, workers1, workers2, wg, functions,
                  callGraph, filesScanned, funcsFound, root, stack,
                  visitedMap, run, firstRun >>

\* LoadPackages, lines 53-81: remember the root and walk it.
Walk ==
  /\ pc = "walk"
  /\ allFiles' = WalkDir
  /\ pc' = "start1"
  /\ UNCHANGED << callGraphMu, dirState, baseDir, files, query, noTests, sent, fileChan, fileChan2,
                  workers1, workers2, wg, functions, callGraph, filesScanned,
                  funcsFound, root, stack, visitedMap, err, run,
                  firstRun >>

\* Lines 84-103: make the channel and start the Phase 1 workers.
Start1 ==
  /\ pc = "start1"
  /\ fileChan' = NoChan
  /\ workers1' = [w \in Workers |-> IdleWorker]
  /\ wg' = wg + NumWorkers
  /\ sent' = 0
  /\ pc' = "send1"
  /\ UNCHANGED << callGraphMu, dirState, baseDir, files, query, noTests, allFiles, fileChan2,
                  workers2, functions, callGraph, filesScanned, funcsFound,
                  root, stack, visitedMap, err, run, firstRun >>

\* Lines 106-108: send one file; the buffer holds them all.
Send1 ==
  /\ pc = "send1"
  /\ sent < Len(allFiles)
  /\ fileChan' = [fileChan EXCEPT !.buf = Append(@, allFiles[sent + 1])]
  /\ sent' = sent + 1
  /\ UNCHANGED << callGraphMu, dirState, baseDir, files, query, noTests, pc, allFiles, fileChan2,
                  workers1, workers2, wg, functions, callGraph, filesScanned,
                  funcsFound, root, stack, visitedMap, err, run,
                  firstRun >>

\* Line 109 left out: the channel stays open.
Close1_Skipped ==
  /\ pc = "send1"
  /\ sent = Len(allFiles)
  /\ pc' = "wait1"
  /\ UNCHANGED << callGraphMu, dirState, baseDir, files, query, noTests, allFiles, sent,
                  fileChan, fileChan2, workers1, workers2, wg, functions,
                  callGraph, filesScanned, funcsFound, root, stack,
                  visitedMap, err, run, firstRun >>

\* Line 109: close(fileChan).
Close1 ==
  /\ pc = "send1"
  /\ sent = Len(allFiles)
  /\ fileChan' = [fileChan EXCEPT !.closed = TRUE]
  /\ pc' = "wait1"
  /\ UNCHANGED << callGraphMu, dirState, baseDir, files, query, noTests, allFiles, sent, fileChan2,
                  workers1, workers2, wg, functions, callGraph, filesScanned,
                  funcsFound, root, stack, visitedMap, err, run,
                  firstRun >>

\* parseFileFunctionDefs without the early return of lines 151-153.
parseFileFunctionDefs_IgnoreError(f) ==
  [d \in 1..Len(files[f].decls) |->
     createFunction(files[f], files[f].decls[d])]

\* parseFileFunctionDefs: the declarations a worker will store, none when
\* the file does not parse.
parseFileFunctionDefs(f) ==
  IF ~files[f].ok THEN <<>>
  ELSE [d \in 1..Len(files[f].decls) |->
          createFunction(files[f], files[f].decls[d])]

\* A Phase 1 worker receives a file from the channel and parses it.
Recv1(w) ==
  /\ workers1[w].st = "idle"
  /\ fileChan.buf # <<>>
  /\ fileChan' = [fileChan EXCEPT !.buf = Tail(@)]
  /\ workers1' = [workers1 EXCEPT ![w] =
       [st |-> "busy", file |-> Head(fileChan.buf),
        pending |-> parseFileFunctionDefs(Head(fileChan.buf))]]
  /\ UNCHANGED << callGraphMu, dirState, baseDir, files, query, noTests, pc, allFiles, sent,
                  fileChan2, workers2, wg, functions, callGraph, filesScanned,
                  funcsFound, root, stack, visitedMap, err, run,
                  firstRun >>

\* sync.Map.Store.
Store(m, key, fn) ==
  [k \in DOMAIN m \cup {key} |-> IF k = key THEN fn ELSE m[k]]

\* parseFileFunctionDefs, lines 161-166: store one declaration.
Extract1(w) ==
  /\ workers1[w].st = "busy"
  /\ workers1[w].pending # <<>>
  /\ \E fn \in { Head(workers1[w].pending) } :
       functions' = Store(functions, getFunctionKey(fn), fn)
  /\ funcsFound' = funcsFound + 1
  /\ workers1' = [workers1 EXCEPT ![w].pending = Tail(@)]
  /\ UNCHANGED << callGraphMu, dirState, baseDir, files, query, noTests, pc, allFiles, sent,
                  fileChan, fileChan2, workers2, wg, callGraph, filesScanned,
                  root, stack, visitedMap, err, run, firstRun >>

\* Lines 97-100: the file is done; count it and take the next.
Done1(w) ==
  /\ workers1[w].st = "busy"
  /\ workers1[w].pending = <<>>
  /\ filesScanned' = filesScanned + 1
  /\ workers1' = [workers1 EXCEPT ![w] = IdleWorker]
  /\ UNCHANGED << callGraphMu, dirState, baseDir, files, query, noTests, pc, allFiles, sent,
                  fileChan, fileChan2, workers2, wg, functions, callGraph,
                  funcsFound, root, stack, visitedMap, err, run,
                  firstRun >>

\* The range loop ends on the closed, drained channel: wg.Done().
Exit1(w) ==
  /\ workers1[w].st = "idle"
  /\ fileChan.buf = <<>>
  /\ fileChan.closed
  /\ workers1' = [workers1 EXCEPT ![w].st = "done"]
  /\ wg' = wg - 1
  /\ UNCHANGED << callGraphMu, dirState, baseDir, files, query, noTests, pc, allFiles, sent,
                  fileChan, fileChan2, workers2, functions, callGraph,
                  filesScanned, funcsFound, root, stack, visitedMap,
                  err, run, firstRun >>

\* Line 112 without the wait: Phase 2 is set up at once.
Wait1_NoBarrier ==
  /\ pc = "wait1"
  /\ pc' = "start2"
  /\ UNCHANGED << callGraphMu, dirState, baseDir, files, query, noTests, allFiles, sent, fileChan,
                  fileChan2, workers1, workers2, wg, functions, callGraph,
                  filesScanned, funcsFound, root, stack, visitedMap,
                  err, run, firstRun >>

\* Line 112: wg.Wait() returns once every Phase 1 worker is done.
Wait1 ==
  /\ pc = "wait1"
  /\ wg = 0
  /\ pc' = "start2"
  /\ UNCHANGED << callGraphMu, dirState, baseDir, files, query, noTests, allFiles, sent, fileChan,
                  fileChan2, workers1, workers2, wg, functions, callGraph,
                  filesScanned, funcsFound, root, stack, visitedMap,
                  err, run, firstRun >>

\* Lines 119-135: reset the counter, make the second channel and start the
\* Phase 2 workers.
Start2 ==
  /\ pc = "start2"
  /\ filesScanned' = 0
  /\ fileChan2' = NoChan
  /\ workers2' = [w \in Workers |-> IdleWorker]
  /\ wg' = wg + NumWorkers
  /\ sent' = 0
  /\ pc' = "send2"
  /\ UNCHANGED << callGraphMu, dirState, baseDir, files, query, noTests, allFiles, fileChan,
                  workers1, functions, callGraph, funcsFound, root, stack, visitedMap, err, run, firstRun >>

\* Lines 138-140.
Send2 ==
  /\ pc = "send2"
  /\ sent < Len(allFiles)
  /\ fileChan2' = [fileChan2 EXCEPT !.buf = Append(@, allFiles[sent + 1])]
  /\ sent' = sent + 1
  /\ UNCHANGED << callGraphMu, dirState, baseDir, files, query, noTests, pc, allFiles, fileChan,
                  workers1, workers2, wg, functions, callGraph, filesScanned,
                  funcsFound, root, stack, visitedMap, err, run,
                  firstRun >>

\* Line 141: close(fileChan2).
Close2 ==
  /\ pc = "send2"
  /\ sent = Len(allFiles)
  /\ fileChan2' = [fileChan2 EXCEPT !.closed = TRUE]
  /\ pc' = "wait2"
  /\ UNCHANGED << callGraphMu, dirState, baseDir, files, query, noTests, allFiles, sent, fileChan,
                  workers1, workers2, wg, functions, callGraph, filesScanned,
                  funcsFound, root, stack, visitedMap, err, run,
                  firstRun >>

\* parseFileCallGraph: the operations a worker will perform for a file,
\* declaration by declaration; none when the file does not parse.
RECURSIVE callGraphOps(_, _)
callGraphOps(f, d) ==
  IF d > Len(files[f].decls) THEN <<>>
  ELSE (IF files[f].decls[d].hasBody
          THEN analyzeBody(files[f].decls[d].body, 1,
                           createFunction(files[f], files[f].decls[d]))
          ELSE <<>>)
       \o callGraphOps(f, d + 1)

parseFileCallGraph(f) == IF ~files[f].ok THEN <<>> ELSE callGraphOps(f, 1)

\* The localFunctions of a file.
localFunctions(f) ==
  [d \in 1..Len(files[f].decls) |-> createFunction(files[f], files[f].decls[d])]

\* A Phase 2 worker receives a file from the channel and parses it.
Recv2(w) ==
  /\ workers2[w].st = "idle"
  /\ fileChan2.buf # <<>>
  /\ fileChan2' = [fileChan2 EXCEPT !.buf = Tail(@)]
  /\ workers2' = [workers2 EXCEPT ![w] =
       [st |-> "busy", file |-> Head(fileChan2.buf),
        pending |-> parseFileCallGraph(Head(fileChan2.buf))]]
  /\ UNCHANGED << callGraphMu, dirState, baseDir, files, query, noTests, pc, allFiles, sent,
                  fileChan, workers1, wg, functions, callGraph, filesScanned,
                  funcsFound, root, stack, visitedMap, err, run,
                  firstRun >>

\* addCallSite, lines 666-679, for the call sites already stored under
\* the callee's key.
appendCallSite(graph, caller, callee, callSites) ==
  IF \E i \in 1..Len(callSites) :
       getFunctionKey(callSites[i].Caller) = getFunctionKey(caller)
    THEN graph
    ELSE Store(graph, getFunctionKey(callee),
               Append(callSites, [Caller |-> caller, Callee |-> callee]))

\* addCallSite: append the edge unless the callee already has a call site
\* whose caller has the same key (the whole body runs under callGraphMu).
addCallSite(graph, caller, callee) ==
  appendCallSite(graph, caller, callee,
                 IF getFunctionKey(callee) \in DOMAIN graph
                   THEN graph[getFunctionKey(callee)] ELSE <<>>)

\* The addCallSite calls a sequence of callees expands to.
edgeOps(caller, callees) ==
  [i \in 1..Len(callees) |-> [k |-> "edge", caller |-> caller, fn |-> callees[i]]]

\* The edge operations one call expression expands to.
edgesOf(op, f) ==
  edgeOps(op.caller, processCallExpr(op.fun, op.caller, localFunctions(f), Catalog))

\* The operation a busy Phase 2 worker performs next.
NextOp(w, kind) ==
  /\ workers2[w].st = "busy"
  /\ workers2[w].pending # <<>>
  /\ Head(workers2[w].pending).k = kind

\* processCallExpr: a Phase 2 worker resolves its next call expression
\* against the catalog as it is now; the call sites are added one by one.
Resolve2(w) ==
  /\ NextOp(w, "call")
  /\ workers2' = [workers2 EXCEPT ![w].pending =
       edgesOf(Head(@), workers2[w].file) \o Tail(@)]
  /\ UNCHANGED << callGraphMu, dirState, baseDir, files, query, noTests, pc, allFiles, sent,
                  fileChan, fileChan2, workers1, wg, functions, callGraph,
                  filesScanned, funcsFound, root, stack, visitedMap,
                  err, run, firstRun >>

\* createAnonymousFunction, line 643: store the synthetic Function.
StoreAnon2(w) ==
  /\ NextOp(w, "store")
  /\ \E op \in { Head(workers2[w].pending) } :
       functions' = Store(functions, anonKey(op.caller, op.fn), op.fn)
  /\ workers2' = [workers2 EXCEPT ![w].pending = Tail(@)]
  /\ UNCHANGED << callGraphMu, dirState, baseDir, files, query, noTests, pc, allFiles, sent,
                  fileChan, fileChan2, workers1, wg, callGraph, filesScanned,
                  funcsFound, root, stack, visitedMap, err, run,
                  firstRun >>

\* One addCallSite call.
AddCallSite2(w) ==
  /\ NextOp(w, "edge")
  /\ \E op \in { Head(workers2[w].pending) } :
       callGraph' = addCallSite(callGraph, op.caller, op.fn)
  /\ workers2' = [workers2 EXCEPT ![w].pending = Tail(@)]
  /\ UNCHANGED << callGraphMu, dirState, baseDir, files, query, noTests, pc, allFiles, sent,
                  fileChan, fileChan2, workers1, wg, functions, filesScanned,
                  funcsFound, root, stack, visitedMap, err, run,
                  firstRun >>

\* Lines 657-658 without mutual exclusion.
Lock2_NoMutex(w) ==
  /\ NextOp(w, "edge")
  /\ callGraphMu' = TRUE
  /\ workers2' = [workers2 EXCEPT ![w].pending =
       << [k |-> "locked", caller |-> Head(@).caller, fn |-> Head(@).fn] >>
       \o Tail(@)]
  /\ UNCHANGED << dirState, baseDir, files, query, noTests, pc, allFiles, sent,
                  fileChan, fileChan2, workers1, wg, functions, callGraph,
                  filesScanned, funcsFound, root, stack, visitedMap, err, run,
                  firstRun >>

\* The steps of one addCallSite call.  Lines 657-658: take the mutex.
Lock2(w) ==
  /\ NextOp(w, "edge")
  /\ ~callGraphMu
  /\ callGraphMu' = TRUE
  /\ workers2' = [workers2 EXCEPT ![w].pending =
       << [k |-> "locked", caller |-> Head(@).caller, fn |-> Head(@).fn] >>
       \o Tail(@)]
  /\ UNCHANGED << dirState, baseDir, files, query, noTests, pc, allFiles, sent,
                  fileChan, fileChan2, workers1, wg, functions, callGraph,
                  filesScanned, funcsFound, root, stack, visitedMap, err, run,
                  firstRun >>

\* Lines 661-664: load the call sites stored under the callee's key.
Load2(w) ==
  /\ NextOp(w, "locked")
  /\ workers2' = [workers2 EXCEPT ![w].pending =
       << [k |-> "loaded", caller |-> Head(@).caller, fn |-> Head(@).fn,
           callSites |-> loadCallSites(callGraph, getFunctionKey(Head(@).fn))] >>
       \o Tail(@)]
  /\ UNCHANGED << callGraphMu, dirState, baseDir, files, query, noTests, pc, allFiles,
                  sent, fileChan, fileChan2, workers1, wg, functions, callGraph,
                  filesScanned, funcsFound, root, stack, visitedMap, err, run,
                  firstRun >>

\* Lines 666-679: return when the caller is there already, else append
\* and store; the deferred Unlock runs on either way out.
Append2(w) ==
  /\ NextOp(w, "loaded")
  /\ \E op \in { Head(workers2[w].pending) } :
       callGraph' = appendCallSite(callGraph, op.caller, op.fn, op.callSites)
  /\ callGraphMu' = FALSE
  /\ workers2' = [workers2 EXCEPT ![w].pending = Tail(@)]
  /\ UNCHANGED << dirState, baseDir, files, query, noTests, pc, allFiles, sent,
                  fileChan, fileChan2, workers1, wg, functions, filesScanned,
                  funcsFound, root, stack, visitedMap, err, run, firstRun >>

\* Lines 129-132.
Done2(w) ==
  /\ workers2[w].st = "busy"
  /\ workers2[w].pending = <<>>
  /\ filesScanned' = filesScanned + 1
  /\ workers2' = [workers2 EXCEPT ![w] = IdleWorker]
  /\ UNCHANGED << callGraphMu, dirState, baseDir, files, query, noTests, pc, allFiles, sent,
                  fileChan, fileChan2, workers1, wg, functions, callGraph,
                  funcsFound, root, stack, visitedMap, err, run,
                  firstRun >>

Exit2(w) ==
  /\ workers2[w].st = "idle"
  /\ fileChan2.buf = <<>>
  /\ fileChan2.closed
  /\ workers2' = [workers2 EXCEPT ![w].st = "done"]
  /\ wg' = wg - 1
  /\ UNCHANGED << callGraphMu, dirState, baseDir, files, query, noTests, pc, allFiles, sent,
                  fileChan, fileChan2, workers1, functions, callGraph,
                  filesScanned, funcsFound, root, stack, visitedMap,
                  err, run, firstRun >>

\* Lines 144-146: wg.Wait() returns and LoadPackages returns nil.
Wait2 ==
  /\ pc = "wait2"
  /\ wg = 0
  /\ pc' = "loaded"
  /\ UNCHANGED << callGraphMu, dirState, baseDir, files, query, noTests, allFiles, sent, fileChan,
                  fileChan2, workers1, workers2, wg, functions, callGraph,
                  filesScanned, funcsFound, root, stack, visitedMap,
                  err, run, firstRun >>

(***************************************************************************)
(* Tree builder (tree/builder.go)                                          *)
(*                                                                         *)
(* A CallNode is [Function, Usages, Depth, Children], Children being the   *)
(* sequence of its child nodes.  A frame of the stack is one activation of *)
(* Build or buildSubtree.                                                  *)
(***************************************************************************)

\* The depth limit of buildSubtree.
MaxDepth == 20

NoNode == [Depth |-> -1]

\* CallTree.getFunctionKey: package.[receiver.]name, without the line.
treeFunctionKey(fn) ==
  IF fn.Receiver # <<>>
    THEN fn.Package \o <<".">> \o fn.Receiver \o <<".">> \o fn.Name
    ELSE fn.Package \o <<".">> \o fn.Name

\* groupCallSitesByCaller: the callers that own a group.
groupCallSitesByCaller(callSites) ==
  { callSites[i].Caller : i \in 1..Len(callSites) }

\* len(sites) of a caller's group.
groupSize(callSites, caller) ==
  Cardinality({ i \in 1..Len(callSites) : callSites[i].Caller = caller })

\* The less function of sortChildren, on the Functions of two children.
functionLess(x, y) ==
  IF x.Package # y.Package THEN StrLess(x.Package, y.Package)
  ELSE IF x.File # y.File THEN StrLess(x.File, y.File)
  ELSE IF x.Name # y.Name THEN StrLess(x.Name, y.Name)
  ELSE x.Line < y.Line

ToSet(seq) == { seq[i] : i \in 1..Len(seq) }

\* The orders sort.Slice can leave a set of children in.  The children
\* come from a map iteration and the sort is not stable, so children the
\* less function does not separate end in either order.
RECURSIVE sortedOrders(_)
sortedOrders(S) ==
  IF S = {} THEN { <<>> }
  ELSE UNION { { <<m>> \o t : t \in sortedOrders(S \ {m}) } :
               m \in { c \in S :
                         \A q \in S : ~functionLess(q.Function, c.Function) } }

\* The children left in the order the loop appended them.
sortChildren_Unsorted(node) == { node.Children }

\* sortChildren.
sortChildren(node) == sortedOrders(ToSet(node.Children))

NewNode(fn, usages, depth) ==
  [Function |-> fn, Usages |-> usages, Depth |-> depth, Children |-> <<>>]

\* A Build or buildSubtree activation: the node it fills, the call sites
\* it groups, the groups its loop has not reached, the depth its children
\* get and the visitedMap key it clears on return.
Frame(node, callSites, depth, key) ==
  [node |-> node, sites |-> callSites,
   todo |-> groupCallSitesByCaller(callSites), depth |-> depth, key |-> key]

Top == stack[Len(stack)]

\* main, line 83, with Build, lines 36-39: FindCallers returns its error.
BuildNotFound ==
  /\ pc = "find"
  /\ \E found \in { FindCallers(query, noTests) } :
       /\ found.err # "none"
       /\ err' = found.err
  /\ pc' = "failed"
  /\ UNCHANGED << callGraphMu, dirState, baseDir, files, query, noTests, allFiles, sent, fileChan,
                  fileChan2, workers1, workers2, wg, functions, callGraph,
                  filesScanned, funcsFound, root, stack, visitedMap, run,
                  firstRun >>

\* Build, lines 41-43: the target has no call sites left.
BuildNoCallers ==
  /\ pc = "find"
  /\ \E found \in { FindCallers(query, noTests) } :
       /\ found.err = "none"
       /\ Len(found.callSites) = 0
  /\ err' = "no callers found"
  /\ pc' = "failed"
  /\ UNCHANGED << callGraphMu, dirState, baseDir, files, query, noTests, allFiles, sent, fileChan,
                  fileChan2, workers1, workers2, wg, functions, callGraph,
                  filesScanned, funcsFound, root, stack, visitedMap, run,
                  firstRun >>

\* The caller of the first call site instead of its callee.
targetFunc_Caller(callSites) == callSites[1].Caller

\* Build, line 45: targetFunc := callSites[0].Callee.
targetFunc(callSites) == callSites[1].Callee

\* Build, lines 45-51: the root is the callee of the first call site.
BuildRoot ==
  /\ pc = "find"
  /\ \E found \in { FindCallers(query, noTests) } :
       /\ found.err = "none"
       /\ Len(found.callSites) # 0
       /\ stack' = << Frame(NewNode(targetFunc(found.callSites), 0, 0),
                            found.callSites, 1, <<>>) >>
  /\ pc' = "build"
  /\ UNCHANGED << callGraphMu, dirState, baseDir, files, query, noTests, allFiles, sent, fileChan,
                  fileChan2, workers1, workers2, wg, functions, callGraph,
                  filesScanned, funcsFound, root, visitedMap, err, run,
                  firstRun >>

\* The limit taken one level too deep.
pastDepthLimit_OffByOne(depth) == depth > MaxDepth + 1

\* buildSubtree, lines 77-79: if depth > 20 { return }.
pastDepthLimit(depth) == depth > MaxDepth

\* The call sites of a node's Function, test callers included.
callersOf_Unfiltered(fn) == loadCallSites(callGraph, getFunctionKey(fn))

\* buildSubtree, lines 88-91: the call sites of a node's Function.
callersOf(fn) ==
  filterTestCallers(loadCallSites(callGraph, getFunctionKey(fn)), noTests)

\* The frame left as it was: the loop does not get past the group.
attachLeaf_Stuck(frame, caller, child) == frame

\* The frame after the loop has attached a child whose buildSubtree
\* returned at once.
attachLeaf(frame, caller, child) ==
  [frame EXCEPT !.node.Children = Append(@, child), !.todo = @ \ {caller}]

\* One iteration of the loop over the caller groups (Build, lines 53-61;
\* buildSubtree, lines 95-103): make the child, attach it and call
\* buildSubtree on it, which returns at once past the depth limit or on a
\* visited key (lines 77-84) and otherwise marks the key and starts its
\* own loop (lines 85-93).  Map iteration takes the groups in any order.
BuildChild ==
  /\ pc = "build"
  /\ \E caller \in Top.todo :
       \E child \in { NewNode(caller, groupSize(Top.sites, caller), Top.depth) } :
         IF pastDepthLimit(Top.depth + 1) \/ treeFunctionKey(caller) \in visitedMap
           THEN /\ stack' = [stack EXCEPT ![Len(stack)] =
                               attachLeaf(@, caller, child)]
                /\ UNCHANGED visitedMap
           ELSE /\ stack' = Append([stack EXCEPT ![Len(stack)].todo = @ \ {caller}],
                                   Frame(child, callersOf(caller), Top.depth + 1,
                                         treeFunctionKey(caller)))
                /\ visitedMap' = visitedMap \cup { treeFunctionKey(caller) }
  /\ UNCHANGED << callGraphMu, dirState, baseDir, files, query, noTests, pc, allFiles, sent,
                  fileChan, fileChan2, workers1, workers2, wg, functions,
                  callGraph, filesScanned, funcsFound, root, err, run,
                  firstRun >>

\* buildSubtree returning without its deferred clearing of the key.
BuildReturn_KeepMark ==
  /\ pc = "build"
  /\ Len(stack) > 1
  /\ Top.todo = {}
  /\ \E sorted \in sortChildren(Top.node) :
       stack' = [SubSeq(stack, 1, Len(stack) - 1)
                   EXCEPT ![Len(stack) - 1].node.Children =
                     Append(@, [Top.node EXCEPT !.Children = sorted])]
  /\ UNCHANGED visitedMap
  /\ UNCHANGED << callGraphMu, dirState, baseDir, files, query, noTests, pc, allFiles, sent,
                  fileChan, fileChan2, workers1, workers2, wg, functions,
                  callGraph, filesScanned, funcsFound, root, err, run,
                  firstRun >>

\* The loop of buildSubtree is over: sortChildren, the deferred clearing
\* of the key, and the return to the caller's loop, whose node holds the
\* finished child (lines 101-106).
BuildReturn ==
  /\ pc = "build"
  /\ Len(stack) > 1
  /\ Top.todo = {}
  /\ \E sorted \in sortChildren(Top.node) :
       stack' = [SubSeq(stack, 1, Len(stack) - 1)
                   EXCEPT ![Len(stack) - 1].node.Children =
                     Append(@, [Top.node EXCEPT !.Children = sorted])]
  /\ visitedMap' = visitedMap \ { Top.key }
  /\ UNCHANGED << callGraphMu, dirState, baseDir, files, query, noTests, pc, allFiles, sent,
                  fileChan, fileChan2, workers1, workers2, wg, functions,
                  callGraph, filesScanned, funcsFound, root, err, run,
                  firstRun >>

\* Build, lines 63-65: the loop of Build is over; sort the children of the
\* root and return nil.
BuildDone ==
  /\ pc = "build"
  /\ Len(stack) = 1
  /\ Top.todo = {}
  /\ \E sorted \in sortChildren(Top.node) :
       root' = [Top.node EXCEPT !.Children = sorted]
  /\ stack' = <<>>
  /\ pc' = "done"
  /\ UNCHANGED << callGraphMu, dirState, baseDir, files, query, noTests, allFiles, sent, fileChan,
                  fileChan2, workers1, workers2, wg, functions, callGraph,
                  filesScanned, funcsFound, visitedMap, err, run, firstRun >>

(***************************************************************************)
(* Source trees and queries of the model                                   *)
(***************************************************************************)

cT == <<"T">>
cA == <<"A">>
cB == <<"B">>
cC == <<"C">>
cS == <<"s">>
cRun == <<"R", "u", "n">>
cSvc == <<"S", "v", "c">>
cTestX == <<"T", "e", "s", "t", "X">>
cDot == <<".">>
cQ == <<"q">>
cAGo == <<"a", ".", "g", "o">>
cBGo == <<"b", ".", "g", "o">>
cATestGo == <<"a", "_", "t", "e", "s", "t", ".", "g", "o">>
cInt == <<"i", "n", "t">>

\* func name() { body } at a line.
FuncDecl(name, line, body) ==
  [name |-> name, recvName |-> <<>>, recv |-> NoExpr, params |-> <<>>,
   line |-> line, hasBody |-> TRUE, body |-> body]

\* func (s *Svc) name(n int) { body } at a line.
MethodDecl(name, line, body) ==
  [name |-> name, recvName |-> cS, recv |-> Star(Ident(cSvc)),
   params |-> << Field(<< <<"n">> >>, Ident(cInt)) >>,
   line |-> line, hasBody |-> TRUE, body |-> body]

File(dir, base, ok, decls) ==
  [dir |-> dir, base |-> base, ok |-> ok, decls |-> decls]

CallT == Call(Ident(cT))
CallA == Call(Ident(cA))
CallB == Call(Ident(cB))
CallRun == Call(Sel(Ident(cS), cRun))

\* Bodies of the one-file trees: no call, one or two calls of T, a call of
\* A or of B, a literal that calls T (one line below the declaration).
Bodies(line) ==
  { <<>>, <<CallT>>, <<CallT, CallT>>, <<CallA>>, <<CallB>>,
    << Lit(line + 1, <<>>, <<CallT>>) >> }

\* One file a.go declaring T, A and B: every combination of the bodies.
OneFileTrees ==
  { << File(cDot, cAGo, TRUE,
            << FuncDecl(cT, 3, bt), FuncDecl(cA, 7, ba), FuncDecl(cB, 12, bb) >>) >> :
      bt \in { <<>>, <<CallT>>, <<CallA>>, <<CallB>>, <<CallT, CallA>> },
      ba \in Bodies(7),
      bb \in { <<>>, <<CallT>>, <<CallA>>, <<CallB>> } }

\* Several files.  a.go declares T, A (calls T) and the method Run.
\* a_test.go, b.go and q/a.go are each absent or one of the variants:
\* a test that calls s.Run(), itself or in a function literal, or that
\* declares a T of its own and calls it; a second declaration of T on the
\* same line of the same package with a caller of its own, or a caller of
\* s.Run(), or a file that does not parse; a function T of a sibling
\* package with a caller of its own.
FileAVariants ==
  { << File(cDot, cAGo, TRUE,
            << FuncDecl(cT, 3, <<>>), FuncDecl(cA, 7, <<CallT>>),
               MethodDecl(cRun, 12, rb) >>) >> :
      rb \in { <<>>, <<CallT>> } }

FileTestVariants ==
  { <<>>,
    << File(cDot, cATestGo, TRUE, << FuncDecl(cTestX, 5, <<CallRun>>) >>) >>,
    << File(cDot, cATestGo, TRUE,
            << FuncDecl(cTestX, 5, << Lit(6, <<>>, <<CallRun>>) >>) >>) >>,
    << File(cDot, cATestGo, TRUE,
            << FuncDecl(cT, 3, <<>>), FuncDecl(cTestX, 5, <<CallT>>) >>) >> }

FileBVariants ==
  { <<>>,
    << File(cDot, cBGo, TRUE,
            << FuncDecl(cT, 3, <<>>), FuncDecl(cB, 7, <<CallT>>) >>) >>,
    << File(cDot, cBGo, TRUE, << FuncDecl(cB, 7, <<CallRun>>) >>) >>,
    << File(cDot, cBGo, FALSE,
            << FuncDecl(cT, 3, <<>>), FuncDecl(cB, 7, <<CallT>>) >>) >> }

FileQVariants ==
  { <<>>,
    << File(cQ, cAGo, TRUE,
            << FuncDecl(cT, 3, <<>>), FuncDecl(cC, 7, <<CallT>>) >>) >> }

\* The number of wrapper functions of the chain.
MaxChain == 22

\* F1, F2, ...; the chain starts at T.
ChainName(i) == IF i = 0 THEN cT ELSE <<"F">> \o Itoa(i)

\* One file declaring T and a chain of wrappers above it: F1 calls T, F2
\* calls F1, and so on.
ChainTrees ==
  { << File(cDot, cAGo, TRUE,
            << FuncDecl(cT, 3, <<>>) >>
            \o [i \in 1..MaxChain |->
                  FuncDecl(ChainName(i), 3 + 4 * i,
                           << Call(Ident(ChainName(i - 1))) >>)]) >> }

ManyFileTrees ==
  { a \o t \o b \o q :
      a \in FileAVariants, t \in FileTestVariants,
      b \in FileBVariants, q \in FileQVariants }

\* The -func arguments: T, A, func (s *Svc) Run (), and a name no file
\* declares.
Queries ==
  { cT, cA,
    <<"f", "u", "n", "c", " ", "(", "s", " ", "*", "S", "v", "c", ")", " ",
      "R", "u", "n", " ", "(", ")">>,
    <<"Z">> }

\* What a run that has not ended leaves behind.
NoRun == [err |-> "unset", root |-> NoNode]

\* The state of a fresh process: nothing scanned, no tree.
Fresh ==
  /\ pc = "stat"
  /\ allFiles = <<>>
  /\ sent = 0
  /\ fileChan = NoChan
  /\ fileChan2 = NoChan
  /\ workers1 = [w \in Workers |-> NoWorker]
  /\ workers2 = [w \in Workers |-> NoWorker]
  /\ wg = 0
  /\ functions = <<>>
  /\ callGraph = <<>>
  /\ filesScanned = 0
  /\ funcsFound = 0
  /\ root = NoNode
  /\ stack = <<>>
  /\ visitedMap = {}
  /\ callGraphMu = FALSE
  /\ err = "none"

\* The states of the scan root: a readable directory, no such directory,
\* a directory that cannot be read.
DirStates == {"ok", "missing", "unreadable"}

\* A first run on the given source trees.  What a directory that cannot
\* be read holds never reaches the program: it is left empty.
InitOn(trees) ==
  /\ dirState \in DirStates
  /\ baseDir = <<"/", "w">>
  /\ IF dirState = "ok" THEN files \in trees ELSE files = <<>>
  /\ query = <<>>
  /\ noTests = FALSE
  /\ run = 1
  /\ firstRun = NoRun
  /\ Fresh

Init == InitOn(OneFileTrees \cup ManyFileTrees \cup ChainTrees)

\* main, line 82: NewCallTree and the call of Build, with the flags of
\* this invocation (a second run has those of the first).
NewCallTree ==
  /\ pc = "loaded"
  /\ IF run = 1
       THEN /\ query' \in Queries
            /\ noTests' \in BOOLEAN
       ELSE UNCHANGED << query, noTests >>
  /\ pc' = "find"
  /\ UNCHANGED << callGraphMu, dirState, baseDir, files, allFiles, sent, fileChan, fileChan2,
                  workers1, workers2, wg, functions, callGraph, filesScanned,
                  funcsFound, root, stack, visitedMap, err, run, firstRun >>

Next ==
  \/ Stat
  \/ Walk
  \/ Start1
  \/ Send1
  \/ Close1
  \/ \E w \in Workers : Recv1(w)
  \/ \E w \in Workers : Extract1(w)
  \/ \E w \in Workers : Done1(w)
  \/ \E w \in Workers : Exit1(w)
  \/ Wait1
  \/ Start2
  \/ Send2
  \/ Close2
  \/ \E w \in Workers : Recv2(w)
  \/ \E w \in Workers : Resolve2(w)
  \/ \E w \in Workers : StoreAnon2(w)
  \/ \E w \in Workers : AddCallSite2(w)
  \/ \E w \in Workers : Done2(w)
  \/ \E w \in Workers : Exit2(w)
  \/ Wait2
  \/ NewCallTree
  \/ BuildNotFound
  \/ BuildNoCallers
  \/ BuildRoot
  \/ BuildChild
  \/ BuildReturn
  \/ BuildDone

Spec == Init /\ [][Next]_vars

(***************************************************************************)
(* Two runs of the program on the same source tree                         *)
(***************************************************************************)

\* The process ends and the program is started again on the unchanged
\* source tree with the same arguments; what the first run ended with is
\* kept for comparison.
Rerun ==
  /\ run = 1
  /\ pc \in {"done", "failed"}
  /\ firstRun' = [err |-> err, root |-> root]
  /\ run' = 2
  /\ pc' = "stat"
  /\ allFiles' = <<>>
  /\ sent' = 0
  /\ fileChan' = NoChan
  /\ fileChan2' = NoChan
  /\ workers1' = [w \in Workers |-> NoWorker]
  /\ workers2' = [w \in Workers |-> NoWorker]
  /\ wg' = 0
  /\ functions' = <<>>
  /\ callGraph' = <<>>
  /\ filesScanned' = 0
  /\ funcsFound' = 0
  /\ root' = NoNode
  /\ stack' = <<>>
  /\ visitedMap' = {}
  /\ callGraphMu' = FALSE
  /\ err' = "none"
  /\ UNCHANGED << dirState, baseDir, files, query, noTests >>

\* The source trees of the two-run specification: a.go with or without
\* b.go (the variants of FileBVariants), and a one-file tree with a
\* function literal.
TwiceTrees ==
  { a \o b : a \in FileAVariants, b \in FileBVariants }
  \cup { << File(cDot, cAGo, TRUE,
                 << FuncDecl(cT, 3, <<>>),
                    FuncDecl(cA, 7, << Lit(8, <<>>, <<CallT>>) >>),
                    FuncDecl(cB, 12, <<CallA>>) >>) >> }

InitTwice == InitOn(TwiceTrees)

NextTwice == Next \/ Rerun

SpecTwice == InitTwice /\ [][NextTwice]_vars

\* A run has ended, with a tree or with an error.
Ended == pc \in {"done", "failed"}

(***************************************************************************)
(* C1                                                                      *)
(***************************************************************************)

\* C1: determinism.  For the same source files and the same query, a
\* second run ends as the first did whatever the interleaving of the
\* workers: the same error or the same tree (root Function with its file
\* and line, nodes, sibling order, usage counts).
C1_Deterministic ==
  (run = 2 /\ Ended) => (err = firstRun.err /\ root = firstRun.root)

(***************************************************************************)
(* Reading a tree and the source it was built from                         *)
(***************************************************************************)

\* The declarations of the source tree, as <<file, declaration>> indices.
Decls ==
  { fd \in (1..Len(files)) \X (1..MaxChain + 2) : fd[2] <= Len(files[fd[1]].decls) }

\* The Function of a declaration.
DeclFunction(fd) == createFunction(files[fd[1]], files[fd[1]].decls[fd[2]])

\* Does this node of a body resolve, now, to a Function with this key.
ResolvesTo(node, fd, key) ==
  /\ node.k = "call"
  /\ \E callees \in { processCallExpr(node.fun, DeclFunction(fd),
                                      localFunctions(fd[1]), Catalog) } :
       \E j \in 1..Len(callees) : getFunctionKey(callees[j]) = key

\* The number of call expressions written in the body of a declaration
\* that resolve to the Function with this key.
CallsTo(fd, key) ==
  Cardinality({ i \in 1..Len(files[fd[1]].decls[fd[2]].body) :
                  ResolvesTo(files[fd[1]].decls[fd[2]].body[i], fd, key) })

\* The children of the root that are nodes for a Function.
RootChildrenFor(fn) ==
  { i \in 1..Len(root.Children) : root.Children[i].Function = fn }

(***************************************************************************)
(* C2                                                                      *)
(***************************************************************************)

\* C2: grouping law.  If the body of a caller A holds N >= 1 call
\* expressions that resolve to the target, the tree built for the target
\* has exactly one child node for A and its Usages is N (callers in test
\* files aside when they are filtered out).
C2_GroupingLaw ==
  pc = "done" =>
    \A fd \in Decls :
      (/\ files[fd[1]].ok
       /\ CallsTo(fd, getFunctionKey(root.Function)) >= 1
       /\ ~(noTests /\ DeclFunction(fd).IsTest))
      => /\ Cardinality(RootChildrenFor(DeclFunction(fd))) = 1
         /\ \A i \in RootChildrenFor(DeclFunction(fd)) :
              root.Children[i].Usages = CallsTo(fd, getFunctionKey(root.Function))

(***************************************************************************)
(* C3                                                                      *)
(***************************************************************************)

\* The catalog Functions the query matches.
Matches == { fn \in Catalog : matchesSignature(fn, query) }

\* The resolved target: the match with the smallest key.
IsTarget(fn) ==
  /\ fn \in Matches
  /\ \A other \in Matches : ~StrLess(getFunctionKey(other), getFunctionKey(fn))

\* The call sites recorded for a Function that the test filter leaves.
SitesLeft(fn) ==
  { i \in 1..Len(loadCallSites(callGraph, getFunctionKey(fn))) :
      ~(noTests /\ callGraph[getFunctionKey(fn)][i].Caller.IsTest) }

\* C3: whenever the resolved target has no call site left after the
\* optional test filter, Build fails with the "no callers found" error and
\* there is no tree.
C3_NoCallersError ==
  Ended =>
    \A fn \in Catalog :
      (IsTarget(fn) /\ SitesLeft(fn) = {})
      => (err = "no callers found" /\ root = NoNode)

\* C3, its case: with the test filter on, a target whose only callers are
\* in test files has ended in the error.
C3_Witness ==
  /\ Ended
  /\ noTests
  /\ err = "no callers found"
  /\ \E fn \in Catalog :
       /\ IsTarget(fn)
       /\ Len(loadCallSites(callGraph, getFunctionKey(fn))) > 0
       /\ \A i \in 1..Len(callGraph[getFunctionKey(fn)]) :
            callGraph[getFunctionKey(fn)][i].Caller.IsTest

(***************************************************************************)
(* C4                                                                      *)
(***************************************************************************)

\* C4: when the query matches exactly one catalog Function, the root of
\* the built tree has the key (package, receiver, name, line) of that
\* Function.
C4_RootIsMatch ==
  pc = "done" =>
    \A fn \in Catalog :
      Matches = {fn} => getFunctionKey(root.Function) = getFunctionKey(fn)

\* C4, its case: a tree was built for a query with one match, in a catalog
\* that holds other Functions too.
C4_Witness ==
  /\ pc = "done"
  /\ Cardinality(Matches) = 1
  /\ Cardinality(Catalog) > 1
  /\ Len(root.Children) > 0

(***************************************************************************)
(* C5                                                                      *)
(***************************************************************************)

\* The steps of the expansion of the tree: the loops of Build and of
\* buildSubtree, which the main goroutine runs without waiting for
\* anything.
Expand == BuildChild \/ BuildReturn \/ BuildDone

\* One-file source trees (all the call cycles among T, A and B, and the
\* chain), with the expansion running on.
InitLive == InitOn(OneFileTrees \cup ChainTrees)

SpecLive == InitLive /\ [][Next]_vars /\ WF_vars(Expand)

\* C5: cycle termination.  Once Build has its root, the expansion ends
\* and Build returns the tree, whatever the call graph: also with a
\* function that calls itself and with longer call cycles through the
\* target.
C5_BuildTerminates == (pc = "build") ~> (pc = "done")

\* The keys of the callers recorded for a Function.
CallerKeys(fn) ==
  { getFunctionKey(loadCallSites(callGraph, getFunctionKey(fn))[i].Caller) :
      i \in 1..Len(loadCallSites(callGraph, getFunctionKey(fn))) }

\* C5, its case: Build has returned a tree for a target that calls itself
\* and is also on a longer call cycle.
C5_Witness ==
  /\ pc = "done"
  /\ getFunctionKey(root.Function) \in CallerKeys(root.Function)
  /\ \E i \in 1..Len(root.Children) :
       /\ getFunctionKey(root.Children[i].Function) # getFunctionKey(root.Function)
       /\ getFunctionKey(root.Function) \in CallerKeys(root.Children[i].Function)
       /\ getFunctionKey(root.Children[i].Function) \in CallerKeys(root.Function)

(***************************************************************************)
(* C6                                                                      *)
(***************************************************************************)

\* No Function of the subtree of a node lies on the path that leads to it
\* (seen: the tree keys on that path), nor twice on a path inside it.
RECURSIVE NoRepeatBelow(_, _)
NoRepeatBelow(node, seen) ==
  /\ treeFunctionKey(node.Function) \notin seen
  /\ \A i \in 1..Len(node.Children) :
       NoRepeatBelow(node.Children[i], seen \cup { treeFunctionKey(node.Function) })

\* C6: a caller whose function is in progress on the current path is
\* omitted by the cycle guard, no node is attached for it: no function
\* occurs twice on any path below the root.
C6_NoRepeatOnPath ==
  pc = "done" =>
    \A i \in 1..Len(root.Children) : NoRepeatBelow(root.Children[i], {})

(***************************************************************************)
(* C7                                                                      *)
(***************************************************************************)

\* No node of a subtree is deeper than the limit.
RECURSIVE DepthsWithin(_, _)
DepthsWithin(node, limit) ==
  /\ node.Depth <= limit
  /\ \A i \in 1..Len(node.Children) : DepthsWithin(node.Children[i], limit)

\* The subtree is the chain from its wrapper number d up to the wrapper
\* at the depth limit, each node at the depth of its number.
RECURSIVE IsChainFrom(_, _)
IsChainFrom(node, d) ==
  /\ node.Function.Name = ChainName(d)
  /\ node.Depth = d
  /\ IF d < MaxDepth
       THEN /\ Len(node.Children) = 1
            /\ IsChainFrom(node.Children[1], d + 1)
       ELSE Len(node.Children) = 0

\* The source tree is the chain, which has more wrappers than the limit,
\* and the query is its target.
ChainQueried ==
  /\ files \in ChainTrees
  /\ MaxChain > MaxDepth
  /\ query = cT

\* C7: depth bound.  No node of a built tree has a Depth above 20, and
\* for a chain of more than 20 wrappers above the target Build returns
\* without error the tree of exactly the chain's nodes at depths 0 to 20.
C7_DepthBound ==
  /\ pc = "done" => DepthsWithin(root, MaxDepth)
  /\ (Ended /\ ChainQueried) => (pc = "done" /\ err = "none" /\ IsChainFrom(root, 0))

\* The largest Depth in a subtree.
RECURSIVE DeepestIn(_)
DeepestIn(node) ==
  IF Len(node.Children) = 0 THEN node.Depth
  ELSE CHOOSE m \in { DeepestIn(node.Children[i]) : i \in 1..Len(node.Children) } :
         \A i \in 1..Len(node.Children) : DeepestIn(node.Children[i]) <= m

\* C7, its case: the tree of the chain has been built and reaches the
\* limit, with wrappers left out above it.
C7_Witness ==
  /\ pc = "done"
  /\ ChainQueried
  /\ DeepestIn(root) = MaxDepth
  /\ Len(files[1].decls) > MaxDepth + 2

(***************************************************************************)
(* C8                                                                      *)
(***************************************************************************)

\* No node of a subtree is a test Function.
RECURSIVE NoTestIn(_)
NoTestIn(node) ==
  /\ ~node.Function.IsTest
  /\ \A i \in 1..Len(node.Children) : NoTestIn(node.Children[i])

\* C8: with exclude-tests on, no node of the built tree other than the
\* root, at any depth, is a Function whose IsTest flag is true.
C8_NoTestNodes ==
  (pc = "done" /\ noTests) =>
    \A i \in 1..Len(root.Children) : NoTestIn(root.Children[i])

\* C8, its case: a tree built with exclude-tests on has a node below the
\* root one of whose recorded callers is a test Function.
C8_Witness ==
  /\ pc = "done"
  /\ noTests
  /\ \E i \in 1..Len(root.Children) :
       \E j \in 1..Len(loadCallSites(callGraph,
                                     getFunctionKey(root.Children[i].Function))) :
         callGraph[getFunctionKey(root.Children[i].Function)][j].Caller.IsTest

(***************************************************************************)
(* C9                                                                      *)
(***************************************************************************)

\* The recorded edges, as <<caller, callee>> pairs of Functions.
RecordedEdges ==
  UNION { { << callGraph[k][i].Caller, callGraph[k][i].Callee >> :
              i \in 1..Len(callGraph[k]) } : k \in DOMAIN callGraph }

\* Every parent-child link of a subtree is a recorded edge from the
\* child's Function to the parent's Function (Functions by identity key).
RECURSIVE LinksRecorded(_)
LinksRecorded(node) ==
  \A i \in 1..Len(node.Children) :
    /\ \E e \in RecordedEdges :
         /\ getFunctionKey(e[1]) = getFunctionKey(node.Children[i].Function)
         /\ getFunctionKey(e[2]) = getFunctionKey(node.Function)
    /\ LinksRecorded(node.Children[i])

\* The keys of the Functions with a chain of recorded edges to one of the
\* given keys.
RECURSIVE CallersClosure(_)
CallersClosure(keys) ==
  IF \A e \in RecordedEdges :
       getFunctionKey(e[2]) \in keys => getFunctionKey(e[1]) \in keys
    THEN keys
    ELSE CallersClosure(
           keys \cup { getFunctionKey(e[1]) :
                         e \in { x \in RecordedEdges : getFunctionKey(x[2]) \in keys } })

\* The keys of the Functions of the nodes of a subtree.
RECURSIVE KeysIn(_)
KeysIn(node) ==
  { getFunctionKey(node.Function) }
  \cup UNION { KeysIn(node.Children[i]) : i \in 1..Len(node.Children) }

\* C9: every parent-child link of a built tree is a recorded call-graph
\* edge whose callee is the parent's Function and whose caller is the
\* child's, and only Functions with a chain of recorded edges to the
\* target are nodes.
C9_LinksAreEdges ==
  pc = "done" =>
    /\ LinksRecorded(root)
    /\ KeysIn(root) \subseteq CallersClosure({ getFunctionKey(root.Function) })

\* C9, its case: a tree has been built while a function of the same name
\* in another package has callers of its own, which are not in the tree.
C9_Witness ==
  /\ pc = "done"
  /\ \E e \in RecordedEdges :
       /\ e[2].Name = root.Function.Name
       /\ e[2].Package # root.Function.Package
       /\ getFunctionKey(e[1]) \notin KeysIn(root)

(***************************************************************************)
(* The signature matcher on its own                                        *)
(*                                                                         *)
(* The catalog holds the one Function of a one-declaration file and the    *)
(* query is any of the forms below; the step is the search of FindCallers. *)
(***************************************************************************)

cFuncMap == <<"f", "u", "n", "c", "M", "a", "p">>
cString == <<"s", "t", "r", "i", "n", "g">>
cOther == <<"O", "t", "h", "e", "r">>

\* The names of the declared functions and of the queries.
MatchNames == { cT, cRun, cFuncMap }

\* The receivers of the declarations: none, (s *Svc), (x Svc), (*Svc).
MatchRecvs ==
  { [recvName |-> <<>>, recv |-> NoExpr],
    [recvName |-> cS, recv |-> Star(Ident(cSvc))],
    [recvName |-> <<"x">>, recv |-> Ident(cSvc)],
    [recvName |-> <<>>, recv |-> Star(Ident(cSvc))] }

\* The parameter lists of the declarations: (), (n int), (a int, b string).
MatchParams ==
  { <<>>,
    << Field(<< <<"n">> >>, Ident(cInt)) >>,
    << Field(<< <<"a">> >>, Ident(cInt)), Field(<< <<"b">> >>, Ident(cString)) >> }

\* a.go with one declaration on line 3.
MatchTrees ==
  { << File(cDot, cAGo, TRUE,
            << [name |-> n, recvName |-> r.recvName, recv |-> r.recv,
                params |-> p, line |-> 3, hasBody |-> TRUE, body |-> <<>>] >>) >> :
      n \in MatchNames, r \in MatchRecvs, p \in MatchParams }

\* The receiver clauses of the queries: none, (s *Svc), (r Svc),
\* (s *Other), (*Svc); each with the type it names.
QueryRecvs ==
  { [text |-> <<>>, type |-> <<>>],
    [text |-> <<"(", "s", " ", "*", "S", "v", "c", ")">>, type |-> cSvc],
    [text |-> <<"(", "r", " ", "S", "v", "c", ")">>, type |-> cSvc],
    [text |-> <<"(", "s", " ", "*", "O", "t", "h", "e", "r", ")">>, type |-> cOther],
    [text |-> <<"(", "*", "S", "v", "c", ")">>, type |-> cSvc] }

\* The parameter lists of the queries, each with the types it lists:
\* absent, (), (int), (n int), (x int), (string), (int, string),
\* (a int, b string), (x int, y string), (string, int).
ParamForms ==
  { [text |-> <<>>, types |-> <<>>],
    [text |-> <<"(", ")">>, types |-> <<>>],
    [text |-> <<"(", "i", "n", "t", ")">>, types |-> <<cInt>>],
    [text |-> <<"(", "n", " ", "i", "n", "t", ")">>, types |-> <<cInt>>],
    [text |-> <<"(", "x", " ", "i", "n", "t", ")">>, types |-> <<cInt>>],
    [text |-> <<"(", "s", "t", "r", "i", "n", "g", ")">>, types |-> <<cString>>],
    [text |-> <<"(", "i", "n", "t", ",", " ", "s", "t", "r", "i", "n", "g", ")">>,
     types |-> <<cInt, cString>>],
    [text |-> <<"(", "a", " ", "i", "n", "t", ",", " ",
                "b", " ", "s", "t", "r", "i", "n", "g", ")">>,
     types |-> <<cInt, cString>>],
    [text |-> <<"(", "x", " ", "i", "n", "t", ",", " ",
                "y", " ", "s", "t", "r", "i", "n", "g", ")">>,
     types |-> <<cInt, cString>>],
    [text |-> <<"(", "s", "t", "r", "i", "n", "g", ",", " ", "i", "n", "t", ")">>,
     types |-> <<cString, cInt>>] }

QueryParams == { pf.text : pf \in ParamForms }

\* The result clauses of the queries: none, or " error" after a parameter
\* list.
QueryResults == { <<>>, <<" ", "e", "r", "r", "o", "r">> }

\* The queries, by their parts: with or without the func keyword, a
\* receiver clause, a name, a parameter list, a result type.
QueryForms ==
  { q \in [ func : BOOLEAN, recv : QueryRecvs, name : MatchNames,
            params : QueryParams, ret : QueryResults ] :
      q.ret # <<>> => q.params # <<>> }

\* The text of a query.
QueryText(q) ==
  (IF q.func THEN <<"f", "u", "n", "c", " ">> ELSE <<>>)
  \o (IF q.recv.text # <<>> THEN q.recv.text \o <<" ">> ELSE <<>>)
  \o q.name \o q.params \o q.ret

InitMatch ==
  /\ dirState = "ok"
  /\ baseDir = <<"/", "w">>
  /\ files \in MatchTrees
  /\ query \in { QueryText(q) : q \in QueryForms }
  /\ noTests = FALSE
  /\ run = 1
  /\ firstRun = NoRun
  /\ pc = "match"
  /\ allFiles = <<1>>
  /\ sent = 0
  /\ fileChan = NoChan
  /\ fileChan2 = NoChan
  /\ workers1 = [w \in Workers |-> NoWorker]
  /\ workers2 = [w \in Workers |-> NoWorker]
  /\ wg = 0
  /\ functions = Store(<<>>, getFunctionKey(parseFileFunctionDefs(1)[1]),
                       parseFileFunctionDefs(1)[1])
  /\ callGraph = <<>>
  /\ filesScanned = 0
  /\ funcsFound = 1
  /\ root = NoNode
  /\ stack = <<>>
  /\ visitedMap = {}
  /\ callGraphMu = FALSE
  /\ err = "none"

\* FindCallers, lines 10-44: the search of the catalog for the query; err
\* tells whether a Function matched.
Match ==
  /\ pc = "match"
  /\ err' = FindCallers(query, noTests).err
  /\ pc' = "matched"
  /\ UNCHANGED << callGraphMu, dirState, baseDir, files, query, noTests, allFiles, sent, fileChan,
                  fileChan2, workers1, workers2, wg, functions, callGraph,
                  filesScanned, funcsFound, root, stack, visitedMap, run,
                  firstRun >>

NextMatch == Match

SpecMatch == InitMatch /\ [][NextMatch]_vars

(***************************************************************************)
(* C10                                                                     *)
(***************************************************************************)

\* The query form names this Function: the same name and, if the form has
\* a receiver clause, the same receiver type once the pointer markers are
\* stripped.
NamesFunction(q, fn) ==
  /\ q.name = fn.Name
  /\ q.recv.text # <<>> =>
       /\ fn.Receiver # <<>>
       /\ TrimPrefix(fn.Receiver, <<"*">>) = q.recv.type

\* C10: wildcard parameters.  A query without a parameter list, or with
\* the list (), matches every catalog Function of that name (and of that
\* receiver type, if the query gives one) whatever the parameters of the
\* Function.
C10_WildcardParams ==
  pc = "matched" =>
    \A fn \in Catalog :
      \A q \in QueryForms :
        (/\ QueryText(q) = query
         /\ q.params \in { <<>>, <<"(", ")">> }
         /\ NamesFunction(q, fn))
        => err = "none"

(***************************************************************************)
(* C11                                                                     *)
(***************************************************************************)

\* The receiver type of a Function without its pointer marker.
ReceiverType(fn) == TrimPrefix(fn.Receiver, <<"*">>)

\* C11: receiver matching.  A query with a receiver clause (and no
\* parameter constraint) matches a method of the same name exactly when the
\* receiver types are equal once the pointer markers are stripped, whether
\* or not the declaration or the query names the receiver variable and
\* whatever the names are.
C11_ReceiverMatch ==
  pc = "matched" =>
    \A fn \in Catalog :
      \A q \in QueryForms :
        (/\ QueryText(q) = query
         /\ q.recv.text # <<>>
         /\ q.name = fn.Name
         /\ q.params \in { <<>>, <<"(", ")">> })
        => ((err = "none")
              <=> (fn.Receiver # <<>> /\ ReceiverType(fn) = q.recv.type))

(***************************************************************************)
(* C12                                                                     *)
(***************************************************************************)

\* The types a parameter list of a query lists, in order.
QueryTypes(text) == (CHOOSE pf \in ParamForms : pf.text = text).types

\* The types of the declared parameters, one for each declared name.
RECURSIVE DeclTypes(_)
DeclTypes(fields) ==
  IF fields = <<>> THEN <<>>
  ELSE [i \in 1..Len(Head(fields).names) |-> formatType(Head(fields).type)]
       \o DeclTypes(Tail(fields))

\* The one declaration of the file the catalog was extracted from.
TheDecl == files[1].decls[1]

\* C12: parameter matching.  A query with a non-empty parameter list (and
\* no receiver clause) matches a candidate of the same name exactly when
\* both have the same number of parameters with the same type at every
\* position; the parameter names of the query may be present, absent or
\* different.
C12_ParamMatch ==
  pc = "matched" =>
    \A q \in QueryForms :
      (/\ QueryText(q) = query
       /\ q.recv.text = <<>>
       /\ q.name = TheDecl.name
       /\ q.params \notin { <<>>, <<"(", ")">> })
      => ((err = "none") <=> (QueryTypes(q.params) = DeclTypes(TheDecl.params)))

(***************************************************************************)
(* C13                                                                     *)
(***************************************************************************)

\* The declaration as it is written in the source, with a result type:
\* func, the receiver clause, the name, the parameter list, the result.
DeclText(d, ret) ==
  <<"f", "u", "n", "c", " ">>
  \o (IF d.recv.k = "none" THEN <<>>
      ELSE IF d.recvName # <<>>
        THEN <<"(">> \o d.recvName \o <<" ">> \o formatType(d.recv) \o <<")", " ">>
        ELSE <<"(">> \o formatType(d.recv) \o <<")", " ">>)
  \o d.name \o extractParameters(d.params) \o ret

\* C13: a query that is the complete declaration as it appears in the
\* code, result type included, resolves to the declared function.
C13_FullDeclaration ==
  (/\ pc = "matched"
   /\ \E ret \in QueryResults \ { <<>> } : query = DeclText(TheDecl, ret))
  => err = "none"

(***************************************************************************)
(* C14                                                                     *)
(***************************************************************************)

\* The call sites FindCallers returned to Build.
Returned == stack[1].sites

\* C14: ambiguous match.  When several catalog Functions match the query,
\* the target is the one with the smallest identity key, every call site
\* FindCallers returns has that Function as its callee, and no call site
\* recorded for another matching Function is among them.
C14_SmallestKey ==
  pc = "build" =>
    \A fn \in Catalog :
      IsTarget(fn) =>
        /\ getFunctionKey(stack[1].node.Function) = getFunctionKey(fn)
        /\ \A i \in 1..Len(Returned) :
             getFunctionKey(Returned[i].Callee) = getFunctionKey(fn)
        /\ \A other \in Matches :
             getFunctionKey(other) # getFunctionKey(fn) =>
               \A i \in 1..Len(Returned) :
                 Returned[i] \notin ToSet(loadCallSites(callGraph, getFunctionKey(other)))

\* C14, its case: Build has the call sites of a target chosen among
\* several matches, another of which has call sites of its own.
C14_Witness ==
  /\ pc = "build"
  /\ Len(Returned) > 0
  /\ \E fn \in Matches :
       \E other \in Matches :
         /\ IsTarget(fn)
         /\ getFunctionKey(other) # getFunctionKey(fn)
         /\ Len(loadCallSites(callGraph, getFunctionKey(other))) > 0

(***************************************************************************)
(* C15                                                                     *)
(***************************************************************************)

\* No worker of either phase has been started.
NoWorkerStarted ==
  \A w \in Workers : workers1[w] = NoWorker /\ workers2[w] = NoWorker

\* C15: when the target directory does not exist or cannot be read, the
\* run gets no further than the check of the directory and the walk: it
\* fails with the directory error, no worker of either extraction phase is
\* started and no tree is built.
C15_NoAnalysis ==
  dirState # "ok" =>
    /\ pc \in {"stat", "walk", "failed"}
    /\ pc = "failed" => err = "directory does not exist"
    /\ NoWorkerStarted
    /\ stack = <<>>
    /\ root = NoNode

(***************************************************************************)
(* File discovery on its own                                               *)
(*                                                                         *)
(* One file somewhere under the scan root, the scan root somewhere on the  *)
(* disk; the step is the walk of LoadPackages.                             *)
(***************************************************************************)

cVendor == <<"v", "e", "n", "d", "o", "r">>
cGit == <<".", "g", "i", "t">>
cTestdata == <<"t", "e", "s", "t", "d", "a", "t", "a">>
cWork == <<".", "w", "o", "r", "k">>

\* The scan roots: /w, /vendor/w and /w/vendor.
WalkRoots ==
  { <<"/", "w">>,
    <<"/">> \o cVendor \o <<"/", "w">>,
    <<"/", "w", "/">> \o cVendor }

\* The directories of the file, relative to the scan root: the root, q,
\* the four pruned names, a pruned name below q, and names that only end
\* in a pruned name.
WalkDirs ==
  { cDot, cQ, cVendor, cGit, cTestdata, cWork,
    cQ \o <<"/">> \o cVendor,
    <<"m", "y">> \o cVendor,
    <<"m", "y">> \o cTestdata \o <<"/">> \o cQ }

\* The file names: a.go, a_test.go, a.pb.go, a_gen.go, a.txt, go.
WalkBases ==
  { cAGo, cATestGo,
    <<"a", ".", "p", "b", ".", "g", "o">>,
    <<"a", "_", "g", "e", "n", ".", "g", "o">>,
    <<"a", ".", "t", "x", "t">>,
    <<"g", "o">> }

WalkTrees == { << File(d, b, TRUE, <<>>) >> : d \in WalkDirs, b \in WalkBases }

InitWalk ==
  /\ dirState = "ok"
  /\ baseDir \in WalkRoots
  /\ files \in WalkTrees
  /\ query = <<>>
  /\ noTests = FALSE
  /\ run = 1
  /\ firstRun = NoRun
  /\ pc = "walk"
  /\ allFiles = <<>>
  /\ sent = 0
  /\ fileChan = NoChan
  /\ fileChan2 = NoChan
  /\ workers1 = [w \in Workers |-> NoWorker]
  /\ workers2 = [w \in Workers |-> NoWorker]
  /\ wg = 0
  /\ functions = <<>>
  /\ callGraph = <<>>
  /\ filesScanned = 0
  /\ funcsFound = 0
  /\ root = NoNode
  /\ stack = <<>>
  /\ visitedMap = {}
  /\ callGraphMu = FALSE
  /\ err = "none"

NextWalk == Walk

SpecWalk == InitWalk /\ [][NextWalk]_vars

(***************************************************************************)
(* C16                                                                     *)
(***************************************************************************)

\* The names of the directories of a relative directory path.
RECURSIVE DirNames(_)
DirNames(dir) ==
  IF dir = cDot \/ dir = <<>> THEN {}
  ELSE IF Index(dir, <<"/">>) < 0 THEN { dir }
  ELSE { Slice(dir, 0, Index(dir, <<"/">>)) }
       \cup DirNames(SliceFrom(dir, Index(dir, <<"/">>) + 1))

\* The file is one that is to be analyzed: a .go file that is not
\* generated, with no pruned directory between the scan root and itself.
ToBeAnalyzed(file) ==
  /\ HasSuffix(file.base, <<".", "g", "o">>)
  /\ ~HasSuffix(file.base, <<".", "p", "b", ".", "g", "o">>)
  /\ ~HasSuffix(file.base, <<"_", "g", "e", "n", ".", "g", "o">>)
  /\ DirNames(file.dir) \cap { cVendor, cGit, cTestdata, cWork } = {}

\* C16: file discovery.  A file under the scan root is collected for
\* analysis exactly when its name ends in .go but not in .pb.go or _gen.go
\* and no directory between the scan root and the file is named vendor,
\* .git, testdata or .work; other directory names and the place of the
\* scan root do not matter.
C16_Discovery ==
  pc = "start1" =>
    \A i \in 1..Len(files) : (i \in ToSet(allFiles)) <=> ToBeAnalyzed(files[i])

(***************************************************************************)
(* LoadPackages on its own, addCallSite step by step                       *)
(*                                                                         *)
(* The source trees are no file at all, a.go with a function that calls T  *)
(* twice, a.go with b.go, and the four files a.go, a_test.go, b.go and     *)
(* q/a.go, where Run calls nothing, the test calls s.Run() in a function   *)
(* literal, and b.go declares T and B and does or does not parse.  The     *)
(* goroutines are scheduled by                                             *)
(* the Go runtime, which runs a goroutine that can take a step: the        *)
(* specification is weakly fair on the steps of LoadPackages.  For         *)
(* Resolve2, which is enabled exactly when a worker has a call expression  *)
(* next and always changes the state, weak fairness is written out.        *)
(***************************************************************************)

LoadTrees ==
  { a \o b : a \in FileAVariants, b \in FileBVariants \ { <<>> } }
  \cup { a \o t \o b \o q :
           a \in { x \in FileAVariants : x[1].decls[3].body = <<>> },
           t \in { x \in FileTestVariants : x # <<>> /\ x[1].decls[1].body # <<>>
                                              /\ x[1].decls[1].body[1].k = "lit" },
           b \in { x \in FileBVariants : x # <<>> /\ x[1].decls[1].name = cT },
           q \in FileQVariants \ { <<>> } }
  \cup { <<>> }
  \cup { << File(cDot, cAGo, TRUE,
                 << FuncDecl(cT, 3, <<>>), FuncDecl(cA, 7, <<CallT, CallT>>) >>) >> }

InitLoad ==
  /\ dirState = "ok"
  /\ baseDir = <<"/", "w">>
  /\ files \in LoadTrees
  /\ query = <<>>
  /\ noTests = FALSE
  /\ run = 1
  /\ firstRun = NoRun
  /\ pc = "walk"
  /\ allFiles = <<>>
  /\ sent = 0
  /\ fileChan = NoChan
  /\ fileChan2 = NoChan
  /\ workers1 = [w \in Workers |-> NoWorker]
  /\ workers2 = [w \in Workers |-> NoWorker]
  /\ wg = 0
  /\ functions = <<>>
  /\ callGraph = <<>>
  /\ callGraphMu = FALSE
  /\ filesScanned = 0
  /\ funcsFound = 0
  /\ root = NoNode
  /\ stack = <<>>
  /\ visitedMap = {}
  /\ err = "none"

PhaseOne ==
  \/ Start1
  \/ Send1
  \/ Close1
  \/ \E w \in Workers : Recv1(w)
  \/ \E w \in Workers : Extract1(w)
  \/ \E w \in Workers : Done1(w)
  \/ \E w \in Workers : Exit1(w)
  \/ Wait1

PhaseTwo ==
  \/ Start2
  \/ Send2
  \/ Close2
  \/ \E w \in Workers : Recv2(w)
  \/ \E w \in Workers : StoreAnon2(w)
  \/ \E w \in Workers : Lock2(w)
  \/ \E w \in Workers : Load2(w)
  \/ \E w \in Workers : Append2(w)
  \/ \E w \in Workers : Done2(w)
  \/ \E w \in Workers : Exit2(w)
  \/ Wait2

Resolve == \E w \in Workers : Resolve2(w)

ResolveNext == \E w \in Workers : NextOp(w, "call")

NextLoad == Walk \/ PhaseOne \/ PhaseTwo \/ Resolve

ResolveFair == []<>(~ResolveNext) \/ []<><<Resolve>>_vars

SpecLoad ==
  /\ InitLoad
  /\ [][NextLoad]_vars
  /\ WF_vars(Walk \/ PhaseOne \/ PhaseTwo)
  /\ ResolveFair

(***************************************************************************)
(* C17                                                                     *)
(***************************************************************************)

\* The files the walk found that parse, and those that do not.
ParsedFiles == { f \in ToSet(allFiles) : files[f].ok }

FailingFiles == { f \in ToSet(allFiles) : ~files[f].ok }

\* The keys the declarations of the parsed files are stored under.
DeclKeys ==
  { getFunctionKey(DeclFunction(fd)) : fd \in { x \in Decls : x[1] \in ParsedFiles } }

\* The operations of the bodies of the parsed files.
ParsedOps ==
  UNION { { << f, callGraphOps(f, 1)[i] >> : i \in 1..Len(callGraphOps(f, 1)) } :
            f \in ParsedFiles }

\* The keys the function literals of the parsed files are stored under.
LitKeys ==
  { anonKey(fo[2].caller, fo[2].fn) : fo \in { x \in ParsedOps : x[2].k = "store" } }

\* The <<caller key, callee key>> pairs of the calls of one operation.
CallPairs(f, op) ==
  { << getFunctionKey(op.caller), getFunctionKey(edgesOf(op, f)[j].fn) >> :
      j \in 1..Len(edgesOf(op, f)) }

\* The pairs of the calls written in the parsed files, and of the function
\* literals, each of which is a callee of the function it is written in.
ParsedPairs ==
  UNION { CallPairs(fo[1], fo[2]) : fo \in { x \in ParsedOps : x[2].k = "call" } }
  \cup { << getFunctionKey(fo[2].caller), getFunctionKey(fo[2].fn) >> :
           fo \in { x \in ParsedOps : x[2].k = "edge" } }

\* The pairs of the recorded edges.
RecordedPairs ==
  { << getFunctionKey(e[1]), getFunctionKey(e[2]) >> : e \in RecordedEdges }

\* Is the Function one of a file that does not parse.
FromFailingFile(fn) ==
  \E f \in FailingFiles :
    fn.FullPath = relPathOf(files[f]) /\ fn.Package = getPackagePath(files[f])

\* C17: fail-soft parsing.  When LoadPackages has returned, it has
\* returned no error, no catalog entry and no end of a recorded edge is a
\* Function of a file that failed to parse, and the catalog and the edges
\* are those of the declarations and calls of the files that parse.
C17_FailSoft ==
  pc = "loaded" =>
    /\ err = "none"
    /\ \A fn \in Catalog : ~FromFailingFile(fn)
    /\ \A e \in RecordedEdges : ~FromFailingFile(e[1]) /\ ~FromFailingFile(e[2])
    /\ DOMAIN functions = DeclKeys \cup LitKeys
    /\ RecordedPairs = ParsedPairs

\* C17, its case: LoadPackages has returned after a file that does not
\* parse went through both phases next to a file whose declarations and
\* calls are recorded.
C17_Witness ==
  /\ pc = "loaded"
  /\ FailingFiles # {}
  /\ filesScanned = Len(allFiles)
  /\ ParsedPairs # {}
  /\ RecordedPairs # {}

(***************************************************************************)
(* C18                                                                     *)
(***************************************************************************)

\* A Phase 2 worker has been started.
PhaseTwoStarted == \E w \in Workers : workers2[w].st # "none"

\* The worker is about to resolve a method call, which searches the whole
\* catalog when the file has no candidate of its own.
GlobalSearchNext(w) ==
  /\ NextOp(w, "call")
  /\ Head(workers2[w].pending).fun.k = "sel"

\* C18: the phase barrier.  Once a Phase 2 worker exists every Phase 1
\* worker has finished, no file is left in the Phase 1 channel, and every
\* declaration of every parsed file is in the catalog.
C18_PhaseBarrier ==
  PhaseTwoStarted =>
    /\ \A w \in Workers : workers1[w].st = "done"
    /\ fileChan.buf = <<>>
    /\ DeclKeys \subseteq DOMAIN functions

\* C18, its case: a Phase 2 worker is about to resolve a method call
\* written in one file, the method being declared in another file.
C18_Witness ==
  \E w \in Workers :
    /\ GlobalSearchNext(w)
    /\ \E fn \in Catalog :
         /\ fn.Name = Head(workers2[w].pending).fun.sel
         /\ fn.FullPath # relPathOf(files[workers2[w].file])

(***************************************************************************)
(* C19                                                                     *)
(***************************************************************************)

\* No callee key holds two call sites whose callers have the same key, and
\* every call site is stored under the key of its callee.
NoDuplicateEdges ==
  \A k \in DOMAIN callGraph :
    \A i, j \in 1..Len(callGraph[k]) :
      /\ getFunctionKey(callGraph[k][i].Callee) = k
      /\ i # j => getFunctionKey(callGraph[k][i].Caller)
                    # getFunctionKey(callGraph[k][j].Caller)

\* The worker is inside addCallSite, holding the mutex.
InAddCallSite(w) == NextOp(w, "locked") \/ NextOp(w, "loaded")

\* C19: under every interleaving of the steps of concurrent addCallSite
\* calls the call graph never holds two edges with the same caller key and
\* callee key, no step removes a recorded edge, and when LoadPackages has
\* returned the edge of every call of every parsed file is recorded.
C19_EdgesKept ==
  /\ [](NoDuplicateEdges /\ (pc = "loaded" => ParsedPairs \subseteq RecordedPairs))
  /\ [][RecordedPairs \subseteq RecordedPairs']_vars

\* C19, its case: one worker is inside addCallSite while another worker
\* is about to call it for the same callee with another caller, the callee
\* having a recorded call site already.
C19_Witness ==
  \E w, v \in Workers :
    /\ w # v
    /\ InAddCallSite(w)
    /\ NextOp(v, "edge")
    /\ \E a \in { Head(workers2[w].pending) }, b \in { Head(workers2[v].pending) } :
         /\ getFunctionKey(a.fn) = getFunctionKey(b.fn)
         /\ getFunctionKey(a.caller) # getFunctionKey(b.caller)
         /\ getFunctionKey(a.fn) \in DOMAIN callGraph

(***************************************************************************)
(* C20                                                                     *)
(***************************************************************************)

\* The number of workers that hold a file.
Busy(workers) == Cardinality({ w \in Workers : workers[w].st = "busy" })

\* The files sent so far are, in order: those received, then those still
\* in the channel.  The workers that hold a file hold different received
\* files, and every other received file has been counted as done.
HandedOnce(chan, workers) ==
  /\ Len(chan.buf) <= sent
  /\ chan.buf = SubSeq(allFiles, sent - Len(chan.buf) + 1, sent)
  /\ \A w \in Workers : workers[w].st = "busy" =>
       /\ \E i \in 1..(sent - Len(chan.buf)) : allFiles[i] = workers[w].file
       /\ \A v \in Workers :
            v # w /\ workers[v].st = "busy" => workers[v].file # workers[w].file
  /\ filesScanned + Busy(workers) = sent - Len(chan.buf)

\* A step in which a worker takes a file takes the head of the channel,
\* removes it from the channel, and leaves the other workers alone.
TakesHead(chan, chanNext, workers, workersNext) ==
  \A w \in Workers :
    workers[w].st = "idle" /\ workersNext[w].st = "busy" =>
      /\ chan.buf # <<>>
      /\ workersNext[w].file = Head(chan.buf)
      /\ chanNext.buf = Tail(chan.buf)
      /\ \A v \in Workers : v # w => workersNext[v] = workers[v]

\* Every worker of both phases has returned, with nothing left in either
\* channel and every file counted.
AllReturned ==
  /\ \A w \in Workers : workers1[w].st = "done" /\ workers2[w].st = "done"
  /\ fileChan.buf = <<>> /\ fileChan.closed
  /\ fileChan2.buf = <<>> /\ fileChan2.closed
  /\ wg = 0
  /\ filesScanned = Len(allFiles)

\* C20: for any number of files, in each phase every file is handed to
\* exactly one worker, once; LoadPackages returns, and when it does every
\* worker has returned after the channel was closed and drained.
C20_LoadReturns ==
  /\ [](pc \in {"send1", "wait1"} => HandedOnce(fileChan, workers1))
  /\ [](pc \in {"send2", "wait2"} => HandedOnce(fileChan2, workers2))
  /\ [][/\ TakesHead(fileChan, fileChan', workers1, workers1')
        /\ TakesHead(fileChan2, fileChan2', workers2, workers2')]_vars
  /\ [](pc = "loaded" => AllReturned)
  /\ (pc = "walk") ~> (pc = "loaded")

\* C20, its case: LoadPackages has returned after more files than there
\* are workers went through both phases.
C20_Witness ==
  /\ pc = "loaded"
  /\ Len(allFiles) > NumWorkers
  /\ AllReturned

\* C20, its other case: LoadPackages has returned with no file found.
C20_WitnessNoFile ==
  /\ pc = "loaded"
  /\ allFiles = <<>>
  /\ AllReturned

(***************************************************************************)
(* The call resolver at work in LoadPackages                               *)
(*                                                                         *)
(* Small source trees, one per case of processCallExpr and of the          *)
(* traversal of function literals; the steps are those of LoadPackages.    *)
(***************************************************************************)

cZ == <<"z">>
cX == <<"x">>
cStore == <<"S", "t", "o", "r", "e">>

\* func (recvName *type) name() { body } at a line.
MethodOn(recvName, type, name, line, body) ==
  [name |-> name, recvName |-> recvName, recv |-> Star(Ident(type)),
   params |-> <<>>, line |-> line, hasBody |-> TRUE, body |-> body]

\* Plain calls.  a.go declares T and A, which calls T, and b.go declares
\* B, which calls T too; a.go declares a method T before the function T;
\* a.go declares T twice.
IdentTrees ==
  { << File(cDot, cAGo, TRUE, << FuncDecl(cT, 3, <<>>), FuncDecl(cA, 7, <<CallT>>) >>),
       File(cDot, cBGo, TRUE, << FuncDecl(cB, 7, <<CallT>>) >>) >>,
    << File(cDot, cAGo, TRUE,
            << MethodOn(cS, cSvc, cT, 3, <<>>), FuncDecl(cT, 12, <<>>),
               FuncDecl(cA, 17, <<CallT>>) >>) >>,
    << File(cDot, cAGo, TRUE,
            << FuncDecl(cT, 3, <<>>), FuncDecl(cT, 12, <<>>),
               FuncDecl(cA, 17, <<CallT>>) >>) >> }

\* The receivers of the selector calls: s.Run(), x.s.Run(), x.x.s.Run().
CallForms ==
  { Call(Sel(Ident(cS), cRun)),
    Call(Sel(Sel(Ident(cX), cS), cRun)),
    Call(Sel(Sel(Sel(Ident(cX), cX), cS), cRun)) }

\* Selector calls resolved by the global search.  The method Run is
\* declared in q/a.go only, in a.go and q/a.go, or in a.go (on Svc) and
\* c.go (on Store); its caller B is in b.go or in z/b.go, neither of which
\* declares a method.  Files are in the order of the walk.
RunInA == << File(cDot, cAGo, TRUE, << MethodOn(cS, cSvc, cRun, 3, <<>>) >>) >>

RunInC ==
  << File(cDot, <<"c", ".", "g", "o">>, TRUE, << MethodOn(cS, cStore, cRun, 5, <<>>) >>) >>

RunInQ == << File(cQ, cAGo, TRUE, << MethodOn(cS, cSvc, cRun, 3, <<>>) >>) >>

CallerIn(dir, cf) == << File(dir, cBGo, TRUE, << FuncDecl(cB, 7, <<cf>>) >>) >>

SelectorTrees ==
  { CallerIn(cDot, cf) \o RunInQ : cf \in CallForms }
  \cup { RunInQ \o CallerIn(cZ, cf) : cf \in CallForms }
  \cup { RunInA \o CallerIn(cDot, cf) \o RunInQ : cf \in CallForms }
  \cup { RunInA \o RunInQ \o CallerIn(cZ, cf) : cf \in CallForms }
  \cup { RunInA \o CallerIn(cDot, cf) \o RunInC : cf \in CallForms }
  \cup { RunInA \o RunInC \o CallerIn(cZ, cf) : cf \in CallForms }

\* Function literals: A holds a literal that calls T; A holds a literal
\* that holds a literal that calls T.
LiteralTrees ==
  { << File(cDot, cAGo, TRUE,
            << FuncDecl(cT, 3, <<>>),
               FuncDecl(cA, 7, << Lit(8, <<>>, <<CallT>>) >>) >>) >>,
    << File(cDot, cAGo, TRUE,
            << FuncDecl(cT, 3, <<>>),
               FuncDecl(cA, 7, << Lit(8, <<>>, << Lit(9, <<>>, <<CallT>>) >>) >>) >>) >> }

\* One-letter receiver variables and receiver types.
ReceiverLetters == { <<"r">>, <<"s">>, <<"c">>, <<"m">>, <<"t">>, <<"i">>, <<"b">> }

ReceiverTypes ==
  { <<"R", "e", "a", "d", "e", "r">>,
    <<"B", "u", "f", "R", "e", "a", "d", "e", "r">>,
    <<"R", "o", "u", "t", "e", "r">>,
    <<"i", "n", "b", "o", "x", "M", "u", "l", "t", "i", "p", "l", "e", "x", "e", "r">>,
    <<"S", "e", "r", "v", "e", "r">>,
    <<"D", "a", "t", "a", "S", "t", "o", "r", "e">>,
    <<"C", "l", "i", "e", "n", "t">>,
    <<"A", "p", "p", "C", "o", "n", "t", "e", "x", "t">>,
    <<"M", "a", "n", "a", "g", "e", "r">>,
    <<"H", "a", "s", "h", "M", "a", "p">>,
    <<"I", "n", "b", "o", "x", "T", "r", "a", "c", "k", "e", "r">>,
    <<"I", "n", "b", "o", "x">>,
    <<"M", "i", "n", "i", "B", "a", "t", "c", "h">> }

\* One file: the method Run on a type, and A, which calls v.Run().
ReceiverTrees ==
  { << File(cDot, cAGo, TRUE,
            << MethodOn(<<"x">>, ty, cRun, 3, <<>>),
               FuncDecl(cA, 7, << Call(Sel(Ident(v), cRun)) >>) >>) >> :
      v \in ReceiverLetters, ty \in ReceiverTypes }

\* One file: Run on Svc, Run on Store, and A, which calls s.Run().
TwoMethodTrees ==
  { << File(cDot, cAGo, TRUE,
            << MethodOn(cS, cSvc, cRun, 3, <<>>), MethodOn(cS, cStore, cRun, 7, <<>>),
               FuncDecl(cA, 12, <<CallRun>>) >>) >> }

ResolveTrees ==
  IdentTrees \cup SelectorTrees \cup LiteralTrees \cup ReceiverTrees \cup TwoMethodTrees

InitResolveOn(trees) ==
  /\ dirState = "ok"
  /\ baseDir = <<"/", "w">>
  /\ files \in trees
  /\ query = <<>>
  /\ noTests = FALSE
  /\ run = 1
  /\ firstRun = NoRun
  /\ pc = "walk"
  /\ allFiles = <<>>
  /\ sent = 0
  /\ fileChan = NoChan
  /\ fileChan2 = NoChan
  /\ workers1 = [w \in Workers |-> NoWorker]
  /\ workers2 = [w \in Workers |-> NoWorker]
  /\ wg = 0
  /\ functions = <<>>
  /\ callGraph = <<>>
  /\ callGraphMu = FALSE
  /\ filesScanned = 0
  /\ funcsFound = 0
  /\ root = NoNode
  /\ stack = <<>>
  /\ visitedMap = {}
  /\ err = "none"

InitResolve == InitResolveOn(ResolveTrees)

SpecResolve == InitResolve /\ [][NextLoad]_vars

(***************************************************************************)
(* C21                                                                     *)
(***************************************************************************)

\* The declarations of a file that are functions of this name, without a
\* receiver.
PlainDecls(f, name) ==
  { d \in 1..Len(files[f].decls) :
      files[f].decls[d].name = name /\ files[f].decls[d].recv.k = "none" }

\* The first of them in declaration order, as the callees of a call.
FirstPlain(f, name) ==
  IF PlainDecls(f, name) = {} THEN <<>>
  ELSE << DeclFunction(<< f, CHOOSE d \in PlainDecls(f, name) :
                               \A e \in PlainDecls(f, name) : d <= e >>) >>

\* The worker resolves its next call expression in this step.
Resolves(w) == NextOp(w, "call") /\ workers2'[w] # workers2[w]

\* The addCallSite calls the step leaves the worker with are those for
\* these callees.
ResolvesInto(w, callees) ==
  workers2'[w].pending =
    edgeOps(Head(workers2[w].pending).caller, callees) \o Tail(workers2[w].pending)

\* The name a call expression calls, when it is a plain identifier.
IdentCall(w) == Head(workers2[w].pending).fun.k = "ident"

\* Is the Function a declared function without a receiver.
IsPlain(fn) ==
  \E fd \in Decls : fn = DeclFunction(fd) /\ fn.Receiver = <<>>

\* C21: a plain identifier call is resolved to the first function of that
\* name, without a receiver, that the caller's file declares, and to
\* nothing when the file declares none; so every recorded edge to a
\* declared function without a receiver has its caller in the same file.
C21_SameFileOnly ==
  /\ [][\A w \in Workers :
          Resolves(w) /\ IdentCall(w) =>
            ResolvesInto(w, FirstPlain(workers2[w].file,
                                       Head(workers2[w].pending).fun.name))]_vars
  /\ [](\A e \in RecordedEdges :
          IsPlain(e[2]) => e[1].FullPath = e[2].FullPath /\ e[1].Package = e[2].Package)

\* C21, its case: LoadPackages has returned; a function calls a name its
\* file does not declare while another file of the same package declares
\* a function of that name, and no edge leaves the caller.
C21_Witness ==
  /\ pc = "loaded"
  /\ \E fo \in { x \in ParsedOps : x[2].k = "call" } :
       /\ fo[2].fun.k = "ident"
       /\ PlainDecls(fo[1], fo[2].fun.name) = {}
       /\ \E fn \in Catalog :
            /\ fn.Name = fo[2].fun.name
            /\ fn.Receiver = <<>>
            /\ fn.Package = fo[2].caller.Package
            /\ fn.FullPath # fo[2].caller.FullPath
       /\ \A e \in RecordedEdges : e[1] # fo[2].caller

(***************************************************************************)
(* C22                                                                     *)
(***************************************************************************)

\* The call expression the worker resolves next is a selector call none
\* of whose candidates is a method of the caller's file, so that the whole
\* catalog is searched.
GlobalSearch(w) ==
  /\ Head(workers2[w].pending).fun.k = "sel"
  /\ localCallees(Head(workers2[w].pending).fun.sel,
                  receiverVarOf(Head(workers2[w].pending).fun.x),
                  Head(workers2[w].pending).fun.x.k = "sel",
                  localFunctions(workers2[w].file)) = <<>>

\* The candidates of a selector call: the methods of that name in the
\* catalog, of a receiver type the hint allows when there is a hint.
Candidates(fun) ==
  { fn \in Catalog :
      /\ fn.Name = fun.sel
      /\ fn.Receiver # <<>>
      /\ receiverVarOf(fun.x) # <<>> => couldBeReceiver(receiverVarOf(fun.x), fn.Receiver) }

\* The candidate the edge is to go to: the smallest-keyed one of the
\* caller's package if there is one, else the smallest-keyed one.
Preferred(cands, pkg) ==
  IF cands = {} THEN <<>>
  ELSE IF { fn \in cands : fn.Package = pkg } # {}
    THEN << SortByKey({ fn \in cands : fn.Package = pkg })[1] >>
  ELSE << SortByKey(cands)[1] >>

\* The receiver of a selector call is a chain of more than one field.
DeepChain(fun) == fun.x.k = "sel" /\ fun.x.x.k = "sel"

\* C22: a selector call resolved by the global search, whatever its
\* receiver, is linked to its only candidate, or among several to the
\* smallest-keyed candidate of the caller's package if there is one, and
\* otherwise to the smallest-keyed candidate.
C22_GlobalSearch ==
  [][\A w \in Workers :
       Resolves(w) /\ GlobalSearch(w) =>
         ResolvesInto(w, Preferred(Candidates(Head(workers2[w].pending).fun),
                                   Head(workers2[w].pending).caller.Package))]_vars

(***************************************************************************)
(* C23                                                                     *)
(***************************************************************************)

\* The callees a call expression of a file resolves to.
CalleesOf(fun, encl, f) ==
  ToSet(processCallExpr(fun, encl, localFunctions(f), Catalog))

\* The <<caller, callee>> pairs of a body when every call and
\* every function literal is attributed to the Function it is immediately
\* written in: encl for the body itself, the literal's synthetic Function
\* for the body of a literal.
RECURSIVE InnerPairs(_, _, _, _)
InnerPairs(body, i, encl, f) ==
  IF i > Len(body) THEN {}
  ELSE (IF body[i].k = "call"
          THEN { << encl, c >> : c \in CalleesOf(body[i].fun, encl, f) }
        ELSE IF body[i].k = "lit"
          THEN { << encl, createAnonymousFunction(body[i], encl) >> }
               \cup InnerPairs(body[i].body, 1,
                               createAnonymousFunction(body[i], encl), f)
        ELSE {})
       \cup InnerPairs(body, i + 1, encl, f)

\* The declarations of the parsed files that have a body.
ParsedBodies ==
  { fd \in Decls : fd[1] \in ParsedFiles /\ files[fd[1]].decls[fd[2]].hasBody }

\* The innermost-attribution pairs of the parsed files.
InnermostPairs ==
  UNION { InnerPairs(files[fd[1]].decls[fd[2]].body, 1, DeclFunction(fd), fd[1]) :
            fd \in ParsedBodies }

\* Is the Function the synthetic Function of a function literal.
IsLiteral(fn) == \A fd \in Decls : fn # DeclFunction(fd)

Abbreviations(letter) ==
  CASE letter = <<"r">> -> { <<"r", "e", "a", "d", "e", "r">>, <<"r", "o", "u", "t", "e", "r">>, <<"m", "u", "l", "t", "i", "p", "l", "e", "x", "e", "r">> }
    [] letter = <<"s">> -> { <<"s", "e", "r", "v", "e", "r">>, <<"s", "e", "r", "v", "i", "c", "e">>, <<"s", "t", "o", "r", "e">> }
    [] letter = <<"c">> -> { <<"c", "l", "i", "e", "n", "t">>, <<"c", "o", "n", "t", "r", "o", "l", "l", "e", "r">>, <<"c", "o", "n", "t", "e", "x", "t">> }
    [] letter = <<"m">> -> { <<"m", "a", "n", "a", "g", "e", "r">>, <<"m", "a", "p">> }
    [] letter = <<"t">> -> { <<"t", "r", "a", "c", "k", "e", "r">> }
    [] letter = <<"i">> -> { <<"i", "n", "b", "o", "x">> }
    [] letter = <<"b">> -> { <<"b", "a", "t", "c", "h">> }
    [] OTHER -> {}

\* The receiver type contains one of the words the letter stands for.
TableMatch(letter, receiverType) ==
  \E word \in Abbreviations(letter) :
    Contains(ToLower(TrimPrefix(receiverType, <<"*">>)), word)

\* The calls of the parsed files of the form v.m() with v one letter.
LetterCalls ==
  { fo \in ParsedOps :
      /\ fo[2].k = "call"
      /\ fo[2].fun.k = "sel"
      /\ fo[2].fun.x.k = "ident"
      /\ Len(fo[2].fun.x.name) = 1 }

\* The methods of a name in the catalog.
MethodsNamed(name) == { fn \in Catalog : fn.Name = name /\ fn.Receiver # <<>> }

\* C24: a call v.m() whose one-letter variable v stands, by the table of
\* abbreviations, for the receiver type of the only method m of the tree
\* (r for a type containing reader, router or multiplexer, and so on) is
\* resolved to that method: when LoadPackages has returned the call graph
\* has the edge from the caller to it.
C24_AbbreviationTable ==
  pc = "loaded" =>
    \A fo \in LetterCalls :
      \A fn \in MethodsNamed(fo[2].fun.sel) :
        /\ MethodsNamed(fo[2].fun.sel) = {fn}
        /\ TableMatch(fo[2].fun.x.name, fn.Receiver)
        => << getFunctionKey(fo[2].caller), getFunctionKey(fn) >> \in RecordedPairs

(***************************************************************************)
(* C25                                                                     *)
(***************************************************************************)

\* The declarations of the parsed files.
ParsedDecls == { fd \in Decls : fd[1] \in ParsedFiles }

\* C25: when LoadPackages has returned, two distinct declarations of the
\* parsed files have two distinct identity keys, and the catalog holds
\* under the key of every declaration the Function of that declaration.
C25_UniqueKeys ==
  pc = "loaded" =>
    /\ \A fd \in ParsedDecls, fe \in ParsedDecls :
         fd # fe => getFunctionKey(DeclFunction(fd)) # getFunctionKey(DeclFunction(fe))
    /\ \A fd \in ParsedDecls :
         /\ getFunctionKey(DeclFunction(fd)) \in DOMAIN functions
         /\ functions[getFunctionKey(DeclFunction(fd))] = DeclFunction(fd)

(***************************************************************************)
(* The tree builder at work on diamonds, closures and several files        *)
(***************************************************************************)

cD == <<"D">>

\* A diamond: T is called by A and by B, both are called by C, and C is
\* called by D.
DiamondTree ==
  << File(cDot, cAGo, TRUE,
          << FuncDecl(cT, 3, <<>>),
             FuncDecl(cB, 7, <<CallT>>),
             FuncDecl(cA, 12, <<CallT>>),
             FuncDecl(cC, 17, <<CallA, CallB>>),
             FuncDecl(cD, 22, << Call(Ident(cC)) >>) >>) >>

\* Closures: a literal that calls T nested in a literal of A; a literal
\* of A that calls T and a literal of B that calls A.
NestedClosureTree ==
  << File(cDot, cAGo, TRUE,
          << FuncDecl(cT, 3, <<>>),
             FuncDecl(cA, 7, << Lit(8, <<>>, << Lit(9, <<>>, <<CallT>>) >>) >>) >>) >>

TwoClosuresTree ==
  << File(cDot, cAGo, TRUE,
          << FuncDecl(cT, 3, <<>>),
             FuncDecl(cA, 7, << Lit(8, <<>>, <<CallT>>) >>),
             FuncDecl(cB, 12, << Lit(13, <<>>, <<CallA>>) >>) >>) >>

\* Two files whose functions call the method Run of the first: the
\* Phase 2 workers add the two edges in either order.
TwoCallersTree ==
  << File(cDot, cAGo, TRUE,
          << MethodOn(cS, cSvc, cRun, 3, <<>>), FuncDecl(cA, 7, <<CallRun>>) >>),
     File(cDot, cBGo, TRUE, << FuncDecl(cB, 7, <<CallRun>>) >>) >>

BuildTrees == { DiamondTree, NestedClosureTree, TwoClosuresTree, TwoCallersTree }

InitBuild == InitOn(BuildTrees)

SpecBuild == InitBuild /\ [][Next]_vars

(***************************************************************************)
(* C26                                                                     *)
(***************************************************************************)

\* The children of every node of a subtree are in ascending order of
\* (package, file, name, line): no child is less than one before it.
RECURSIVE ChildrenSorted(_)
ChildrenSorted(node) ==
  /\ \A i \in 1..Len(node.Children), j \in 1..Len(node.Children) :
       i < j => ~functionLess(node.Children[j].Function, node.Children[i].Function)
  /\ \A i \in 1..Len(node.Children) : ChildrenSorted(node.Children[i])

\* C26: in every built tree the children of every node, the root
\* included, are in ascending order of (package, file, function name,
\* line), whatever the order in which the edges entered the call graph.
C26_SortedChildren == pc = "done" => ChildrenSorted(root)

\* A tree has been built whose root has two children, while the call
\* graph holds the edges to the root's Function in descending order.
C26_Witness ==
  /\ pc = "done"
  /\ Len(root.Children) >= 2
  /\ \E sites \in { callersOf(root.Function) } :
       /\ Len(sites) >= 2
       /\ functionLess(sites[2].Caller, sites[1].Caller)

(***************************************************************************)
(* C27                                                                     *)
(***************************************************************************)

\* The Functions of the children of a node.
ChildFunctions(node) == { node.Children[i].Function : i \in 1..Len(node.Children) }

\* The callers a node of depth 1 or more is expanded with: none past the
\* depth limit or when the node's mark is carried by a node above it on
\* its own path, all the callers of its Function otherwise.
ExpectedCallers(node, marks, mark) ==
  IF node.Depth + 1 > MaxDepth \/ mark \in marks THEN {}
  ELSE groupCallSitesByCaller(callersOf(node.Function))

\* Every node of the subtree is expanded with the callers expected of it,
\* marks being those of the nodes above it; the mark of a Function is its
\* builder key.
RECURSIVE ExpandedByPath(_, _)
ExpandedByPath(node, marks) ==
  /\ ChildFunctions(node) = ExpectedCallers(node, marks, treeFunctionKey(node.Function))
  /\ \A i \in 1..Len(node.Children) :
       ExpandedByPath(node.Children[i], marks \cup { treeFunctionKey(node.Function) })

\* C27: the in-progress mark of a function is cleared when its expansion
\* returns.  In a built tree no mark is left, and a node is unexpanded
\* only past the depth limit or when its mark is that of a node above it
\* on its own path: a function reached through two branches is a node of
\* each and has all its callers below it in both.
C27_DiamondPreserved ==
  pc = "done" =>
    /\ visitedMap = {}
    /\ \A i \in 1..Len(root.Children) : ExpandedByPath(root.Children[i], {})

\* A tree has been built in which two children of the root have a child
\* of the same Function, and both of these have children of their own.
C27_Witness ==
  /\ pc = "done"
  /\ \E i \in 1..Len(root.Children), j \in 1..Len(root.Children) :
       /\ i # j
       /\ \E x \in ToSet(root.Children[i].Children), y \in ToSet(root.Children[j].Children) :
            /\ x.Function = y.Function
            /\ x.Children # <<>>
            /\ y.Children # <<>>

(***************************************************************************)
(* C28                                                                     *)
(***************************************************************************)

\* Every node of the subtree is expanded with the callers expected of it,
\* the mark of a Function being its identity key (package, receiver, name
\* and line).
RECURSIVE ExpandedByIdentity(_, _)
ExpandedByIdentity(node, marks) ==
  /\ ChildFunctions(node) = ExpectedCallers(node, marks, getFunctionKey(node.Function))
  /\ \A i \in 1..Len(node.Children) :
       ExpandedByIdentity(node.Children[i], marks \cup { getFunctionKey(node.Function) })

\* C28: the cycle guard identifies functions by identity.  In a built
\* tree a node is unexpanded only past the depth limit or when the very
\* same Function (same package, receiver, name and line) is a node above
\* it on its own path; a Function that shares package, receiver and name
\* with one above it but is declared on another line has all its callers
\* below it.
C28_GuardByIdentity ==
  pc = "done" =>
    \A i \in 1..Len(root.Children) : ExpandedByIdentity(root.Children[i], {})

(***************************************************************************)
(* C29                                                                     *)
(***************************************************************************)

\* The catalog keys of the function literals of a body when each literal
\* is stored for the Function it is immediately written in.
RECURSIVE InnerLitKeys(_, _, _)
InnerLitKeys(body, i, encl) ==
  IF i > Len(body) THEN {}
  ELSE (IF body[i].k = "lit"
          THEN { anonKey(encl, createAnonymousFunction(body[i], encl)) }
               \cup InnerLitKeys(body[i].body, 1, createAnonymousFunction(body[i], encl))
          ELSE {})
       \cup InnerLitKeys(body, i + 1, encl)

InnermostLitKeys ==
  UNION { InnerLitKeys(files[fd[1]].decls[fd[2]].body, 1, DeclFunction(fd)) :
            fd \in ParsedBodies }

\* The key pairs of the innermost-attribution pairs.
InnermostKeyPairs ==
  { << getFunctionKey(p[1]), getFunctionKey(p[2]) >> : p \in InnermostPairs }

\* C29: calls inside a function literal are attributed to the innermost
\* enclosing function only.  When LoadPackages has returned, every edge
\* of the call graph goes from the Function a call or a literal is
\* immediately written in to its callee or to the literal, and the
\* catalog holds each literal under the key of its immediately enclosing
\* Function only.
C29_InnermostOnly ==
  pc = "loaded" =>
    /\ RecordedPairs \subseteq InnermostKeyPairs
    /\ DOMAIN functions \subseteq DeclKeys \cup InnermostLitKeys

(***************************************************************************)
(* C30                                                                     *)
(***************************************************************************)

\* The addCallSite calls a worker has pending once it has resolved its
\* next call expression.
NewEdges(w) == Len(workers2'[w].pending) - Len(Tail(workers2[w].pending))

\* C30: a single call expression adds at most one edge to the call
\* graph: whichever way it is resolved (plain identifier, selector among
\* the methods of the file, selector by global search), processCallExpr
\* calls addCallSite for one callee or for none.
C30_AtMostOneEdge ==
  [][\A w \in Workers : NextOp(w, "call") /\ workers2'[w] # workers2[w] => NewEdges(w) <= 1]_vars

====
